---- MODULE Spec2Model ----
(***************************************************************************)
(* The agent loop of opencode_py: SessionPrompt.prompt / loop / cancel     *)
(* (src/opencode/session/prompt.py) running on the SessionManager store    *)
(* (src/session/manager.py) and the ToolRegistry dispatcher                *)
(* (src/opencode/tool/tool.py).                                            *)
(*                                                                         *)
(* Every action is one run of a coroutine between two real suspension      *)
(* points (provider.complete, a registered tool's execute); awaits of      *)
(* coroutines that never suspend (get_agent, _resolve_tools, an unknown    *)
(* tool, a call that raises TypeError) are part of the same action.        *)
(***************************************************************************)
EXTENDS Integers, Sequences, FiniteSets, TLC

\* ---- bounds -------------------------------------------------------------
MaxMsgs == 4          \* message rows the store may hold
MaxCalls == 2         \* tool calls the provider returns, over all responses
MaxPrompts == 2       \* prompts submitted to existing sessions
MaxTies == 1          \* clock readings that return the millisecond of the one before
MaxUpserts == 1       \* part upserts made through the Store API by other callers
MaxTx == 4            \* transactions of Store operations called on their own

\* ---- program constants ----------------------------------------------------
max_steps == 50

Tasks == {"t1", "t2"}
SessionIds == {"s1"}          \* sessions that exist in the store
RegisteredTools == {"read"}   \* ToolRegistry._tools
NoTask == "none"
NoId == 0

VARIABLES
    sessions,      \* SessionModel rows: time_updated, permission
    messages,      \* MessageModel rows, in insertion order
    parts,         \* PartModel rows, in insertion order
    events,        \* payloads handed to Bus.publish, in order
    now,           \* the clock, in ms, as last read
    nextId,        \* counter of the id generators
    busy,          \* SessionPrompt._busy_sessions: session -> owner of the stored Event
    task,          \* per caller: position and locals of prompt()/loop()
    results,       \* history: tool part id -> what ToolRegistry.execute did
    ties,          \* history: number of clock readings that did not advance
    upserts,       \* history: number of Store API part upserts
    limits,        \* the message rows and tool calls a run is followed for
    effects,       \* Database._effects: payloads registered and not yet published
    foreign_keys,  \* whether the SQLite connection enforces foreign keys
    txs,           \* history: the transactions of the Store operations followed
    permission_manager,  \* the PermissionManager and its permissions.json
    accounting,  \* a call of calculate_usage: its arguments and the tokens it returned
    bus,  \* the Bus: its subscription table, the callbacks made, the last publish
    bash,  \* a call of BashTool.execute and the subprocess it waits on
    ids,  \* the IDGenerators: their counters and the identifiers returned
    store_db,  \* a call of Database.use or Database.transaction of opencode.store
    agent,  \* a call of Agent.run: its loop, its session messages, its outcome
    storage_state  \* Storage: its migrations and the migration file

vars == <<sessions, messages, parts, events, now, nextId, busy, task, results,
          ties, upserts, limits, effects, foreign_keys, txs, permission_manager,
          accounting,
          bus,
          bash,
          ids,
          store_db,
          agent,
          storage_state>>

\* ---- values ---------------------------------------------------------------
NoText == [kind |-> "none", tool |-> "none", payload |-> "none"]

IdleTask == [pc |-> "idle", session |-> "none", step |-> 0, abort |-> FALSE,
             user |-> NoId, assistant |-> NoId, calls |-> <<>>, idx |-> 0,
             toolPart |-> NoId,
             outcome |-> "none", returned |-> NoId, nModel |-> 0,
             wasBusy |-> FALSE, cancelled |-> FALSE, runningAtCancel |-> NoId]

\* a title, character by character: "a" is a character that is neither a
\* blank nor part of a fork mark, " " a blank, "fork" the text "(fork #n)"
Ch(c) == [ch |-> c, n |-> 0]
ForkMark(n) == [ch |-> "fork", n |-> n]
DefaultTitle == <<Ch("a")>>

NoParent == "none"

\* a SessionModel row that is stored, and the place of one that is not
StoredSession == [exists |-> TRUE, time_updated |-> 0, permission |-> "none",
                  title |-> DefaultTitle, parent_id |-> NoParent]
NoSession == [exists |-> FALSE, time_updated |-> 0, permission |-> "none",
              title |-> DefaultTitle, parent_id |-> NoParent]

\* ---- SessionManager.calculate_usage ---------------------------------------
\* a value under a key of the usage or metadata dict: a finite number, or
\* None (also: the key is absent and the default is None), or a float that
\* is not finite (inf, -inf, nan), or a value that is no number
Num(n) == [kind |-> "number", v |-> n]
NoneValue == [kind |-> "None", v |-> 0]
NotFinite == [kind |-> "inf", v |-> 0]
Absent == [kind |-> "absent", v |-> 0]

\* usage.get(key, 0): the default for a key that is absent
Get0(x) == IF x.kind = "absent" THEN Num(0) ELSE x

safe(x) == IF x.kind # "number" THEN 0 ELSE x.v

AnthropicPackages == {"@ai-sdk/anthropic", "@ai-sdk/amazon-bedrock",
                      "@ai-sdk/google-vertex/anthropic"}

\* metadata: None, or a dict with one provider key ("anthropic", "bedrock",
\* "venice") whose dict is not empty and holds the cache-write counter
NoMetadata == [provider |-> "None", cache_write |-> Absent]

calculate_usage(model, usage, metadata) ==
    LET input_tokens == safe(Get0(usage.inputTokens))
        output_tokens == safe(Get0(usage.outputTokens))
        reasoning_tokens == safe(Get0(usage.reasoningTokens))
        cache_read == safe(Get0(usage.cachedInputTokens))
        cache_write == safe(Get0(metadata.cache_write))
        excludes_cached == metadata.provider \in {"anthropic", "bedrock"}
        adjusted_input == IF excludes_cached THEN input_tokens
                          ELSE input_tokens - cache_read - cache_write
    IN  [total |-> IF model.npm \in AnthropicPackages
                   THEN adjusted_input + output_tokens + cache_read + cache_write
                   ELSE safe(Get0(usage.totalTokens)),
         input |-> adjusted_input,
         output |-> output_tokens,
         reasoning |-> reasoning_tokens,
         cache |-> [read |-> cache_read, write |-> cache_write]]

\* no call of calculate_usage has been made
NoUsage == [total |-> 0, input |-> 0, output |-> 0, reasoning |-> 0,
            cache |-> [read |-> 0, write |-> 0]]

NoAccounting ==
    [called |-> FALSE, model |-> [npm |-> "None"],
     usage |-> [inputTokens |-> Absent, outputTokens |-> Absent,
                reasoningTokens |-> Absent, cachedInputTokens |-> Absent,
                totalTokens |-> Absent],
     metadata |-> NoMetadata, tokens |-> NoUsage]

\* ---- Bus -------------------------------------------------------------------
\* Bus._subscriptions: for each key (an event type, or "*" for subscribe_all)
\* the list of callbacks in the order they were appended. A callback is named
\* by its position in `callbacks`, the order of registration; what it does
\* when called is fixed when it is made:
\*   "return"      returns None
\*   "raise"       raises an Exception
\*   "done"        the wrapper of Bus.once whose callback returns "done"
\*   "subscribe"   subscribes one more callback to its own key
\*   "unsubscribe" calls the unsubscribe function of the callback `target`
EventTypes == {"a", "b"}
Wildcard == "*"
Keys == EventTypes \cup {Wildcard}
NoTarget == 0
MaxCallbacks == 2
NoPublish == [type |-> "None", before |-> [k \in Keys |-> <<>>], calls |-> <<>>,
              raised |-> {}, propagated |-> FALSE, changed |-> FALSE,
              after |-> [k \in Keys |-> <<>>]]
NoBus == [subscriptions |-> [k \in Keys |-> <<>>], callbacks |-> <<>>,
          last |-> NoPublish]

\* cls._subscriptions[key].append(callback)
subscribe(b, key, does, target) ==
    LET callback == Len(b.callbacks) + 1
    IN  [b EXCEPT !.callbacks = Append(@, [key |-> key, does |-> does,
                                           target |-> target]),
                  !.subscriptions[key] = Append(@, callback)]

\* list.remove(callback); a ValueError is passed over
unsubscribe(b, callback) ==
    LET key == b.callbacks[callback].key
    IN  [b EXCEPT !.subscriptions[key] =
            SelectSeq(@, LAMBDA c : c # callback)]

\* callback(payload): the bus after the call
Call(b, callback) ==
    LET cb == b.callbacks[callback]
    IN  CASE cb.does = "done" -> unsubscribe(b, callback)
          [] cb.does = "unsubscribe" -> unsubscribe(b, cb.target)
          [] cb.does = "subscribe" ->
                IF Len(b.callbacks) < MaxCallbacks
                THEN subscribe(b, cb.key, "return", NoTarget)
                ELSE b
          [] OTHER -> b

\* for callback in cls._subscriptions.get(key, []): the loop reads the live
\* list at index i, then i + 1, until the index is past its end
RECURSIVE Deliver(_, _, _, _)
Deliver(b, key, i, guarded) ==
    IF i > Len(b.subscriptions[key]) \/ b.last.propagated
    THEN b
    ELSE LET callback == b.subscriptions[key][i]
             raises == b.callbacks[callback].does = "raise"
             called == [b EXCEPT
                 !.last.calls = Append(@, callback),
                 !.last.raised = IF raises THEN @ \cup {callback} ELSE @,
                 !.last.propagated = raises /\ ~guarded]
             returned == Call(called, callback)
             next == [returned EXCEPT
                 !.last.changed = @ \/ returned.subscriptions # b.subscriptions,
                 !.last.after = returned.subscriptions]
         IN  Deliver(next, key, i + 1, guarded)

Published(b, type) ==
    [b EXCEPT !.last = [type |-> type, before |-> b.subscriptions,
                        calls |-> <<>>, raised |-> {}, propagated |-> FALSE,
                        changed |-> FALSE, after |-> b.subscriptions]]

\* a variant of publish without the try around callback(payload)
publish_unguarded(b, type) ==
    Deliver(Deliver(Published(b, type), type, 1, FALSE),
            Wildcard, 1, FALSE)

\* a variant of publish that calls the wildcard subscribers first
publish_wildcard_first(b, type) ==
    Deliver(Deliver(Published(b, type), Wildcard, 1, TRUE),
            type, 1, TRUE)

publish(b, type) ==
    Deliver(Deliver(Published(b, type), type, 1, TRUE),
            Wildcard, 1, TRUE)

\* ---- BashTool ---------------------------------------------------------------
\* one call of BashTool.execute and its subprocess. `elapsed` counts the time
\* since the subprocess was created; the command ends by itself after
\* `duration` with the return code `code`.
NoCode == 0 - 1
Killed == 0 - 9
NoResult == [status |-> "None", error |-> [text |-> "None", metadata |-> {}],
             exit |-> NoCode]
NoBash == [pc |-> "idle", timeout |-> 0, duration |-> 0, code |-> NoCode,
           elapsed |-> 0, aborted |-> FALSE, aborted_at |-> NoCode,
           killed |-> FALSE, returned_at |-> NoCode, result |-> NoResult]

UserAborted == [text |-> "User aborted", metadata |-> {}]

\* the ToolResult built once the wait is over: output carries a
\* <bash_metadata> block for a timeout and for ctx.aborted, the status
\* follows process.returncode, and error is the output when that is not 0
BashResult(timed_out, aborted, returncode) ==
    [status |-> IF returncode = 0 THEN "success" ELSE "error",
     error |-> IF returncode # 0
               THEN [text |-> "output",
                     metadata |-> (IF timed_out THEN {"timeout"} ELSE {})
                                  \cup (IF aborted THEN {"aborted"} ELSE {})]
               ELSE [text |-> "None", metadata |-> {}],
     exit |-> returncode]

\* ---- IDGenerator ------------------------------------------------------------
\* the global generators of the module, one per prefix, and the identifiers
\* they have returned so far, oldest first
Prefixes == {"session", "message"}
NoIds == [counter |-> [p \in Prefixes |-> 0], issued |-> <<>>]

\* uuid.uuid4().hex[:8]: eight hexadecimal digits, four random bits each
RandomHexDigits == 8
RandomBits == 4 * RandomHexDigits

\* f"{self.prefix}_{self._counter}_{unique_id}"
FormatId(prefix, counter, unique_id) ==
    [prefix |-> prefix, counter |-> counter, unique_id |-> unique_id]

\* IDGenerator.generate: unique_id is what uuid4 gave this time
generate(g, prefix, unique_id) ==
    [g EXCEPT !.counter[prefix] = @ + 1,
              !.issued = Append(@, FormatId(prefix, g.counter[prefix] + 1,
                                            unique_id))]

\* IDGenerator.reset
reset(g, prefix) == [g EXCEPT !.counter[prefix] = 0]

\* ---- opencode.store Database -------------------------------------------------
\* one outermost call of Database.use or Database.transaction:
\*   depth      0 outside a call, 1 in its callback, 2.. in the callback of a
\*              nested use/transaction (which shares the context)
\*   registered context['effects']: for each effect whether it raises when run
\*              and the depth it was registered at
\*   committed, rolled_back   session.commit() / session.rollback() was called
\*   ran        the effects executed, by position, in the order they ran
\*   raised     the call raised to its caller
NoStoreDb == [depth |-> 0, registered |-> <<>>, committed |-> FALSE,
              rolled_back |-> FALSE, ran |-> <<>>, raised |-> FALSE,
              returned |-> FALSE]

\* for effect_fn in effects: effect_fn() -- the positions run, up to and
\* including the first effect that raises
RECURSIVE RunEffects(_, _)
RunEffects(registered, i) ==
    IF i > Len(registered) THEN <<>>
    ELSE IF registered[i].raises THEN <<i>>
    ELSE <<i>> \o RunEffects(registered, i + 1)

\* the callback has returned: commit, the effects, and what an exception in
\* them leads to (except Exception: session.rollback(); raise e)
AfterCallback(d) ==
    LET ran == RunEffects(d.registered, 1)
        failed == ran # <<>> /\ d.registered[ran[Len(ran)]].raises
    IN  [d EXCEPT !.depth = 0, !.committed = TRUE, !.ran = ran,
                  !.rolled_back = failed, !.raised = failed,
                  !.returned = TRUE]

\* ---- Agent.run -----------------------------------------------------------------
\* one call of Agent.run:
\*   pc          "idle", "model" (awaiting provider.complete), "tool" (awaiting
\*               ToolRegistry.execute for pending[1]), "done"
\*   iteration   self._current_iteration
\*   responses   for each model call made, the tool calls of its response
\*   messages    the messages added to the session by this run
\*   pending     the tool calls of the current response still to execute
\*   tool_results step.tool_results
\*   outcome     "returned" or "raised", with the text returned and the
\*               awaited call an exception came out of
NoReturn == [text |-> "None", response |-> 0]
MaxIterationsText == [text |-> "Max iterations reached. Please refine your request.",
                      response |-> 0]
NoAgent == [pc |-> "idle", max_iterations |-> 0, iteration |-> 0,
            responses |-> <<>>, messages |-> <<>>, pending |-> <<>>,
            tool_results |-> <<>>, outcome |-> "None", returned |-> NoReturn,
            raised_by |-> "None"]

AgentMessage(role, tool_calls, tool_results) ==
    [role |-> role, tool_calls |-> tool_calls, tool_results |-> tool_results]

\* a variant of the loop condition that admits one more iteration
within_max_iterations_inclusive(a) == a.iteration <= a.max_iterations

\* while self._current_iteration < self.config.max_iterations
within_max_iterations(a) == a.iteration < a.max_iterations

\* the head of the while loop: one more iteration and its model call, or the
\* text returned when the limit is reached
AgentLoop(a) ==
    IF within_max_iterations(a)
    THEN [a EXCEPT !.iteration = @ + 1, !.pc = "model"]
    ELSE [a EXCEPT !.pc = "done", !.outcome = "returned",
                   !.returned = MaxIterationsText]

\* ---- Storage migrations -------------------------------------------------------
\* Storage and its migration file:
\*   initialized  Storage._initialized of the running process
\*   migrations   len(Storage._migrations); a migration is named by its index
\*   version      the number in the migration file (0 when there is none)
\*   succeeded    the migrations that have run to their end at least once
\*   ran          the migrations started by the last initialization, in order
\*   failed       those of them that raised
NoStorage == [initialized |-> FALSE, migrations |-> 0, version |-> 0,
              succeeded |-> {}, ran |-> <<>>, failed |-> {}]

\* for index in range(current_version, len(cls._migrations)): fails is the
\* set of migrations that raise this time; an exception is logged and the
\* loop goes on with the next index
RECURSIVE RunMigrations(_, _, _)
RunMigrations(st, index, fails) ==
    IF index >= st.migrations THEN st
    ELSE IF index \in fails
         THEN RunMigrations([st EXCEPT !.ran = Append(@, index),
                                       !.failed = @ \cup {index}],
                            index + 1, fails)
         ELSE RunMigrations([st EXCEPT !.ran = Append(@, index),
                                       !.succeeded = @ \cup {index},
                                       !.version = index + 1],
                            index + 1, fails)

_run_migrations(st, fails) ==
    RunMigrations([st EXCEPT !.ran = <<>>, !.failed = {}], st.version, fails)

\* ---- PermissionManager -----------------------------------------------------
NoPattern == "None"
NoExpiry == 0 - 1

PermissionRule(tool, level, pattern, expires_at) ==
    [tool |-> tool, level |-> level, pattern |-> pattern, expires_at |-> expires_at]

\* the context of a request: None or an empty dict (given is FALSE), or a
\* dict that is not empty, with context.get("path", "") for path
NoContext == [given |-> FALSE, path |-> ""]
PathContext(path) == [given |-> TRUE, path |-> path]

\* fnmatch.fnmatch(path, pattern) on the paths and patterns followed
fnmatch(path, pattern) ==
    CASE pattern = "*" -> TRUE
      [] pattern = "*.txt" -> path \in {"a.txt"}
      [] OTHER -> path = pattern

\* PermissionRule.matches, at the time clock
matches(rule, tool, context, clock) ==
    IF rule.tool # tool THEN FALSE
    ELSE IF rule.expires_at # NoExpiry /\ clock > rule.expires_at THEN FALSE
    ELSE IF rule.pattern # NoPattern /\ context.given
            /\ ~fnmatch(context.path, rule.pattern) THEN FALSE
    ELSE TRUE

\* for rule in reversed(rules): if rule.matches(...): return rule.level;
\* "none" when the walk ends without a return
RECURSIVE FirstMatchReversed(_, _, _, _, _)
FirstMatchReversed(rules, k, tool, context, clock) ==
    IF k = 0 THEN "none"
    ELSE IF matches(rules[k], tool, context, clock) THEN rules[k].level
    ELSE FirstMatchReversed(rules, k - 1, tool, context, clock)

\* a variant that examines the persistent rules before the session rules
check_permission_persistent_first(pm, tool, context, clock) ==
    LET p == FirstMatchReversed(pm.rules, Len(pm.rules), tool, context, clock)
        s == FirstMatchReversed(pm.session_rules, Len(pm.session_rules), tool,
                                context, clock)
    IN  IF p # "none" THEN p ELSE IF s # "none" THEN s ELSE "ask"

check_permission(pm, tool, context, clock) ==
    LET s == FirstMatchReversed(pm.session_rules, Len(pm.session_rules), tool,
                                context, clock)
        p == FirstMatchReversed(pm.rules, Len(pm.rules), tool, context, clock)
    IN  IF s # "none" THEN s ELSE IF p # "none" THEN p ELSE "ask"

\* a variant whose defaults allow write
setup_defaults_write_allowed ==
    <<PermissionRule("read", "allow", NoPattern, NoExpiry),
      PermissionRule("search", "allow", NoPattern, NoExpiry),
      PermissionRule("write", "allow", NoPattern, NoExpiry),
      PermissionRule("edit", "ask", NoPattern, NoExpiry),
      PermissionRule("shell", "ask", NoPattern, NoExpiry)>>

setup_defaults ==
    <<PermissionRule("read", "allow", NoPattern, NoExpiry),
      PermissionRule("search", "allow", NoPattern, NoExpiry),
      PermissionRule("write", "ask", NoPattern, NoExpiry),
      PermissionRule("edit", "ask", NoPattern, NoExpiry),
      PermissionRule("shell", "ask", NoPattern, NoExpiry)>>

\* permissions.json: absent, or the rules written by the last save
NoFile == [exists |-> FALSE, rules |-> <<>>]

\* PermissionManager(storage_path): no session rules; the rules of the file
\* when there is one, the defaults when there is none
\* (loads, added: history, the managers constructed and the rules added)
load(storage, loads, added) ==
    [rules |-> IF storage.exists THEN storage.rules ELSE setup_defaults,
     session_rules |-> <<>>,
     storage |-> storage,
     loads |-> loads,
     added |-> added]

save(pm) == [pm EXCEPT !.storage = [exists |-> TRUE, rules |-> pm.rules]]

\* expires_in_seconds of None or 0 gives a rule that does not expire
add_rule(pm, tool, level, pattern, expires_in_seconds, session_only, clock) ==
    LET expires_at == IF expires_in_seconds # 0
                      THEN clock + expires_in_seconds ELSE NoExpiry
        rule == PermissionRule(tool, level, pattern, expires_at)
    IN  IF session_only
        THEN [pm EXCEPT !.session_rules = Append(@, rule), !.added = @ + 1]
        ELSE save([pm EXCEPT !.rules = Append(@, rule), !.added = @ + 1])

\* remove_rules(tool, pattern), each "None" or a value to be equal to
Removed(rule, tool, pattern) ==
    /\ tool = "None" \/ rule.tool = tool
    /\ pattern = NoPattern \/ rule.pattern = pattern

remove_rules(pm, tool, pattern) ==
    LET kept(rules) == SelectSeq(rules, LAMBDA r : ~Removed(r, tool, pattern))
        pm1 == [pm EXCEPT !.rules = kept(@), !.session_rules = kept(@)]
    IN  IF Len(pm1.rules) + Len(pm1.session_rules)
               < Len(pm.rules) + Len(pm.session_rules)
        THEN save(pm1) ELSE pm1

clear_session_rules(pm) == [pm EXCEPT !.session_rules = <<>>]

World == [sessions |-> sessions, messages |-> messages, parts |-> parts,
          events |-> events, now |-> now, nextId |-> nextId, busy |-> busy,
          task |-> task, results |-> results, ties |-> ties, limits |-> limits,
          effects |-> effects, foreign_keys |-> foreign_keys, txs |-> txs,
          permission_manager |-> permission_manager,
          accounting |-> accounting,
          bus |-> bus,
          bash |-> bash,
          ids |-> ids,
          store_db |-> store_db,
          agent |-> agent,
          storage_state |-> storage_state]

Commit(W) ==
    /\ sessions' = W.sessions
    /\ messages' = W.messages
    /\ parts' = W.parts
    /\ events' = W.events
    /\ now' = W.now
    /\ nextId' = W.nextId
    /\ busy' = W.busy
    /\ task' = W.task
    /\ results' = W.results
    /\ ties' = W.ties
    /\ limits' = W.limits
    /\ effects' = W.effects
    /\ foreign_keys' = W.foreign_keys
    /\ txs' = W.txs
    /\ permission_manager' = W.permission_manager
    /\ accounting' = W.accounting
    /\ bus' = W.bus
    /\ bash' = W.bash
    /\ ids' = W.ids
    /\ store_db' = W.store_db
    /\ agent' = W.agent
    /\ storage_state' = W.storage_state

Init ==
    /\ sessions = [s \in SessionIds |-> StoredSession]
    /\ messages = <<>>
    /\ parts = <<>>
    /\ events = <<>>
    /\ now = 0
    /\ nextId = [message |-> 1, part |-> 1, session |-> 2]
    /\ busy = [s \in SessionIds |-> NoTask]
    /\ task = [t \in Tasks |-> IdleTask]
    /\ results = <<>>
    /\ ties = 0
    /\ upserts = 0
    /\ limits = [msgs |-> MaxMsgs, calls |-> MaxCalls]
    /\ effects = <<>>
    /\ foreign_keys = FALSE
    /\ txs = <<>>
    /\ permission_manager = load(NoFile, 1, 0)
    /\ storage_state = NoStorage
    /\ agent = NoAgent
    /\ store_db = NoStoreDb
    /\ ids = NoIds
    /\ bash = NoBash
    /\ bus = NoBus
    /\ accounting = NoAccounting

\* ---- helpers --------------------------------------------------------------
IndexOf(rows, i) ==
    IF \E k \in 1..Len(rows) : rows[k].id = i
    THEN CHOOSE k \in 1..Len(rows) : rows[k].id = i
    ELSE 0

RowSet(rows) == {rows[k] : k \in 1..Len(rows)}

MaxTime(S) == CHOOSE x \in {m.time_created : m \in S} :
                  \A y \in {m.time_created : m \in S} : y <= x

\* ---- Bus payloads ---------------------------------------------------------
MessageUpdated(info) ==
    [type |-> "message.updated", session |-> info.sessionID, id |-> info.id,
     status |-> info.finish, tx |-> 0]

PartUpdated(part) ==
    [type |-> "message.part.updated", session |-> part.sessionID, id |-> part.id,
     status |-> part.status, tx |-> 0]

SessionCreated(s) ==
    [type |-> "session.created", session |-> s, id |-> NoId, status |-> "none",
     tx |-> 0]

SessionDeleted(s) ==
    [type |-> "session.deleted", session |-> s, id |-> NoId, status |-> "none",
     tx |-> 0]

MessageRemoved(s, mid) ==
    [type |-> "message.removed", session |-> s, id |-> mid, status |-> "none",
     tx |-> 0]

PartRemoved(s, pid) ==
    [type |-> "message.part.removed", session |-> s, id |-> pid, status |-> "none",
     tx |-> 0]

SessionUpdated(s) ==
    [type |-> "session.updated", session |-> s, id |-> NoId, status |-> "none",
     tx |-> 0]

\* ---- Store ----------------------------------------------------------------
\* int(loop.time() * 1000): the clock has moved on by a millisecond or it has not
ReadClock(W) ==
    {[W EXCEPT !.now = @ + 1]}
    \cup (IF W.ties < MaxTies THEN {[W EXCEPT !.ties = @ + 1]} ELSE {})

generate_message_id(W) == [W EXCEPT !.nextId.message = @ + 1]

generate_part_id(W) == [W EXCEPT !.nextId.part = @ + 1]

\* Database.effect: the payload joins the class-wide list; its tx field
\* records the transaction that registered it (0: none is followed)
effect(W, e) == [W EXCEPT !.effects = Append(@, [e EXCEPT !.tx = Len(W.txs)])]

\* Database.execute_effects: everything in the list is published, in order
execute_effects(W) == [W EXCEPT !.events = @ \o W.effects, !.effects = <<>>]

\* session.commit() went through
Committed(W) ==
    IF W.txs = <<>> THEN W
    ELSE [W EXCEPT !.txs[Len(W.txs)].committed = TRUE]

\* Database.use(func) followed by Database.execute_effects(), for a func
\* that writes rows and then registers e. W: before, Wrows: with func's
\* writes.  commit: the writes stay and the list is published.
\* commit_fails: session.commit() raises, the writes are rolled back, the
\* exception leaves the operation before execute_effects, the list is as
\* func left it.
UseOutcomes == {"commit", "commit_fails"}

Transaction(W, Wrows, e, outcome) ==
    IF outcome = "commit"
    THEN execute_effects(effect(Committed(Wrows), e))
    ELSE effect(W, e)

SessionStored(W, s) == s \in DOMAIN W.sessions /\ W.sessions[s].exists

\* upsert by id: an existing row gets the new data and keeps its
\* time_created and session_id.  With foreign keys enforced, the insert of
\* a row whose session is not stored raises at db.flush(), before the
\* effect is registered.
update_message_tx(W, info, outcome) ==
    LET k == IndexOf(W.messages, info.id)
        rows == IF k = 0
                THEN Append(W.messages, info)
                ELSE [W.messages EXCEPT
                        ![k] = [info EXCEPT !.time_created = W.messages[k].time_created,
                                            !.sessionID = W.messages[k].sessionID]]
    IN  IF k = 0 /\ W.foreign_keys /\ ~SessionStored(W, info.sessionID)
        THEN W
        ELSE Transaction(W, [W EXCEPT !.messages = rows], MessageUpdated(info),
                         outcome)

update_message(W, info) == update_message_tx(W, info, "commit")

\* upsert by id, whatever the stored state of the part is; an existing row
\* keeps its message_id and session_id
update_part_tx(W, part, outcome) ==
    LET k == IndexOf(W.parts, part.id)
        rows == IF k = 0
                THEN Append(W.parts, part)
                ELSE [W.parts EXCEPT
                        ![k] = [part EXCEPT !.messageID = W.parts[k].messageID,
                                            !.sessionID = W.parts[k].sessionID]]
    IN  IF k = 0 /\ W.foreign_keys /\ IndexOf(W.messages, part.messageID) = 0
        THEN W
        ELSE Transaction(W, [W EXCEPT !.parts = rows], PartUpdated(part), outcome)

update_part(W, part) == update_part_tx(W, part, "commit")

\* UPDATE session ... WHERE id = s RETURNING: when no row comes back the
\* function raises NotFoundError before it registers its effect
SessionUpdate(W, s, Wrows, outcome) ==
    IF ~SessionStored(W, s) THEN W
    ELSE Transaction(W, Wrows, SessionUpdated(s), outcome)

\* time_updated := the millisecond of the clock, which may be the one stored
touch_tx(W, s, outcome) ==
    SessionUpdate(W, s, [W EXCEPT !.sessions[s].time_updated = W.now], outcome)

touch(W, s) == touch_tx(W, s, "commit")

set_permission(W, s, permission) ==
    SessionUpdate(W, s, [W EXCEPT !.sessions[s].permission = permission,
                                  !.sessions[s].time_updated = W.now], "commit")

set_title(W, s, title, outcome) ==
    SessionUpdate(W, s, [W EXCEPT !.sessions[s].title = title], outcome)

\* DELETE FROM message WHERE id = mid; ON DELETE CASCADE removes the parts
\* of the message when the connection enforces foreign keys
remove_message_tx(W, s, mid, outcome) ==
    LET msgs == SelectSeq(W.messages, LAMBDA m : m.id # mid)
        prts == IF W.foreign_keys
                THEN SelectSeq(W.parts, LAMBDA p : p.messageID # mid)
                ELSE W.parts
    IN  Transaction(W, [W EXCEPT !.messages = msgs, !.parts = prts],
                    MessageRemoved(s, mid), outcome)

remove_part_tx(W, s, pid, outcome) ==
    Transaction(W, [W EXCEPT !.parts = SelectSeq(W.parts, LAMBDA p : p.id # pid)],
                PartRemoved(s, pid), outcome)

\* the two transactions of delete(): unshare, whose exceptions delete()
\* swallows, and DELETE FROM session WHERE id = s
unshare_tx(W, s, outcome) == Transaction(W, W, SessionUpdated(s), outcome)

delete_tx(W, s, outcome) ==
    LET msgs == IF W.foreign_keys
                THEN SelectSeq(W.messages, LAMBDA m : m.sessionID # s)
                ELSE W.messages
        prts == IF W.foreign_keys
                THEN SelectSeq(W.parts, LAMBDA p : IndexOf(msgs, p.messageID) # 0)
                ELSE W.parts
    IN  Transaction(W, [W EXCEPT !.sessions[s] = NoSession, !.messages = msgs,
                                 !.parts = prts],
                    SessionDeleted(s), outcome)

\* history: a transaction of a Store operation begins
Begin(W, op) == [W EXCEPT !.txs = Append(@, [op |-> op, committed |-> FALSE])]

\* SessionManager.delete: nothing for a session that get() does not find
delete(W, s, unshared, deleted) ==
    IF ~SessionStored(W, s) THEN W
    ELSE delete_tx(Begin(unshare_tx(Begin(W, "unshare"), s, unshared), "delete"),
                   s, deleted)

\* SessionManager.create of a root session: the insert; then share(),
\* whose exceptions create() swallows; then session.updated is published
\* without a transaction.  When the insert fails, its exception ends create.
SessionSeq == <<"s1", "s2", "s3">>

create(W, parent_id, title, created, shared) ==
    LET s == SessionSeq[W.nextId.session]
        row == [StoredSession EXCEPT !.title = title, !.parent_id = parent_id,
                                     !.time_updated = W.now]
        W1 == Begin([W EXCEPT !.nextId.session = @ + 1], "create")
        W2 == Transaction(W1, [W1 EXCEPT !.sessions[s] = row],
                          SessionCreated(s), created)
        W3 == IF parent_id = NoParent
              THEN Transaction(Begin(W2, "share"), Begin(W2, "share"),
                               SessionUpdated(s), shared)
              ELSE W2
    IN  IF created = "commit"
        THEN [W3 EXCEPT !.events = Append(@, SessionUpdated(s))]
        ELSE W2

\* SELECT ... WHERE parent_id = parent
children(W, parent) ==
    {s \in DOMAIN W.sessions : W.sessions[s].exists /\ W.sessions[s].parent_id = parent}

\* re.match(r"^(.+) \(fork #(\d+)\)$", title): a fork mark at the end, a
\* blank before it, and at least one character before the blank
ForkedTitleMatch(title) ==
    /\ Len(title) >= 3
    /\ title[Len(title)].ch = "fork"
    /\ title[Len(title) - 1] = Ch(" ")

\* a variant that never parses a suffix
get_forked_title_plain(title) == title \o <<Ch(" "), ForkMark(1)>>

get_forked_title(title) ==
    IF ForkedTitleMatch(title)
    THEN SubSeq(title, 1, Len(title) - 2)
             \o <<Ch(" "), ForkMark(title[Len(title)].n + 1)>>
    ELSE title \o <<Ch(" "), ForkMark(1)>>

\* ORDER BY time_created DESC: every order of the session's rows that is
\* newest first; rows of equal time_created come in any order
RECURSIVE Listings(_)
Listings(S) ==
    IF S = {} THEN {<<>>}
    ELSE UNION { {<<m>> \o rest : rest \in Listings(S \ {m})} :
                 m \in {x \in S : x.time_created = MaxTime(S)} }

list_messages(W, s) == Listings({m \in RowSet(W.messages) : m.sessionID = s})

PartsOf(W, mid) == {p \in RowSet(W.parts) : p.messageID = mid}

\* SessionManager.fork.  Message ids are "message_<counter>_<hex>" and are
\* compared as strings; the counters followed here have one digit, where
\* the order of the strings is the order of the counters.
\* the parts of a listed message, cloned under new ids
RECURSIVE ClonePartsOf(_, _, _, _, _)
ClonePartsOf(W, ps, k, new_id, forked) ==
    IF k > Len(ps) THEN W
    ELSE LET W1 == generate_part_id(W)
             part == [ps[k] EXCEPT !.id = W.nextId.part, !.messageID = new_id,
                                   !.sessionID = forked]
         IN  ClonePartsOf(update_part(W1, part), ps, k + 1, new_id, forked)

\* for msg in messages: ..., over the listing L as list_messages returned
\* it; id_map maps the ids cloned so far; ps0 are the part rows of the listing
RECURSIVE CloneMessages(_, _, _, _, _, _, _)
CloneMessages(W, L, k, message_id, forked, id_map, ps0) ==
    IF k > Len(L) THEN W
    ELSE IF message_id # NoId /\ L[k].id >= message_id THEN W
    ELSE LET msg == L[k]
             new_id == W.nextId.message
             W1 == generate_message_id(W)
             parent == IF msg.role = "assistant" /\ msg.parentID # NoId
                       THEN IF msg.parentID \in DOMAIN id_map
                            THEN id_map[msg.parentID] ELSE NoId
                       ELSE msg.parentID
             info == [msg EXCEPT !.id = new_id, !.sessionID = forked,
                                 !.parentID = parent]
             W2 == update_message(W1, info)
             ps == SelectSeq(ps0, LAMBDA p : p.messageID = msg.id)
             W3 == ClonePartsOf(W2, ps, 1, new_id, forked)
         IN  CloneMessages(W3, L, k + 1, message_id, forked,
                           (msg.id :> new_id) @@ id_map, ps0)

\* the worlds fork can end in, one for each listing list_messages can
\* return; a session that get() does not find raises NotFoundError
fork(W, session_id, message_id) ==
    IF ~SessionStored(W, session_id) THEN {W}
    ELSE LET forked == SessionSeq[W.nextId.session]
             title == get_forked_title(W.sessions[session_id].title)
         IN  UNION { { CloneMessages(W1, L, 1, message_id, forked, <<>>, W1.parts) :
                       L \in list_messages(W1, session_id) } :
                     W1 \in {create(W, NoParent, title, "commit", "commit")} }

Reverse(q) == [k \in 1..Len(q) |-> q[Len(q) + 1 - k]]

\* filter_compacted: copy the newest-first listing up to and including a
\* compacted user message, then reverse it into oldest-first
RECURSIVE CompactedPrefix(_, _, _, _)
CompactedPrefix(W, L, k, completed) ==
    IF k > Len(L) THEN L
    ELSE LET m == L[k] IN
         IF /\ m.role = "user"
            /\ m.id \in completed
            /\ \E p \in PartsOf(W, m.id) : p.type = "compaction"
         THEN SubSeq(L, 1, k)
         ELSE CompactedPrefix(W, L, k + 1,
                  IF m.role = "assistant" /\ m.summary /\ m.finish # "none"
                  THEN completed \cup {m.parentID} ELSE completed)

filter_compacted(W, L) == Reverse(CompactedPrefix(W, L, 1, {}))

\* ---- rows the loop writes -------------------------------------------------
\* the "tokens" dict of a message, by key: a user message has none, a new
\* assistant message has its counters at zero (cache counters left out)
NoTokens == [k \in {} |-> 0]
ZeroTokens == [k \in {"input", "output", "reasoning"} |-> 0]

UserInfo(id, s, created, forCall) ==
    [id |-> id, sessionID |-> s, time_created |-> created, role |-> "user",
     parentID |-> NoId, finish |-> "none", summary |-> FALSE, forCall |-> forCall,
     tokens |-> NoTokens, error |-> "none"]

AssistantInfo(id, s, created, parent) ==
    [id |-> id, sessionID |-> s, time_created |-> created, role |-> "assistant",
     parentID |-> parent, finish |-> "none", summary |-> FALSE, forCall |-> NoId,
     tokens |-> ZeroTokens, error |-> "none"]

TextPart(id, mid, s, text) ==
    [id |-> id, messageID |-> mid, sessionID |-> s, type |-> "text",
     status |-> "none", callID |-> 0, tool |-> "none", text |-> text,
     error |-> "none"]

ToolPart(id, mid, s, callID, tool, status, error) ==
    [id |-> id, messageID |-> mid, sessionID |-> s, type |-> "tool",
     status |-> status, callID |-> callID, tool |-> tool, text |-> NoText,
     error |-> error]

PromptText == [kind |-> "prompt", tool |-> "none", payload |-> "2+2?"]
ContentText == [kind |-> "content", tool |-> "none", payload |-> "4"]
\* f"Tool {tool_call.name} result: {result.content}"
ToolResultText(name, result) ==
    [kind |-> "tool-result", tool |-> name, payload |-> result.content]

\* ToolResult values
Success == [status |-> "success", content |-> "hello", error |-> "None"]
Failure == [status |-> "error", content |-> "None", error |-> "nope"]
UnknownTool == [status |-> "error", content |-> "None", error |-> "Unknown tool"]

\* ---- SessionPrompt.loop ---------------------------------------------------
\* the finally block, then the coroutine ends: with a value or with an exception
Finally(W, t, outcome, returned) ==
    LET s == W.task[t].session IN
    [W EXCEPT !.busy[s] = NoTask,
              !.task[t].pc = "idle",
              !.task[t].step = 0,
              !.task[t].abort = FALSE,
              !.task[t].assistant = NoId,
              !.task[t].calls = <<>>,
              !.task[t].idx = 0,
              !.task[t].toolPart = NoId,
              !.task[t].outcome = outcome,
              !.task[t].returned = returned]

FirstOfRole(q, role) ==
    IF \E k \in 1..Len(q) : q[k].role = role
    THEN q[CHOOSE k \in 1..Len(q) :
             /\ q[k].role = role
             /\ \A j \in 1..(k - 1) : q[j].role # role]
    ELSE [id |-> NoId, finish |-> "none"]

\* one pass of the while loop, from its head to provider.complete
LoopIteration(W, t, L) ==
    LET s == W.task[t].session
        mwp == filter_compacted(W, L)
        last_user == FirstOfRole(Reverse(mwp), "user")
        last_assistant == FirstOfRole(Reverse(mwp), "assistant")
    IN  IF last_user.id = NoId
        THEN {Finally(W, t, "no_user_message", NoId)}
        ELSE IF last_assistant.finish \notin {"none", "tool-calls", "unknown"}
        THEN {Finally(W, t, "max_iterations", NoId)}
        ELSE IF Len(W.messages) >= W.limits.msgs THEN {}
        ELSE { [update_message(generate_message_id(W2),
                    AssistantInfo(W2.nextId.message, s, W2.now, last_user.id))
                  EXCEPT !.task[t].pc = "model",
                         !.task[t].assistant = W2.nextId.message]
               : W2 \in ReadClock(W) }

\* the head of the while loop
LoopHead(W, t) ==
    IF W.task[t].step < max_steps /\ ~W.task[t].abort
    THEN UNION { UNION {LoopIteration(W1, t, L) :
                        L \in list_messages(W1, W1.task[t].session)}
                 : W1 \in {[W EXCEPT !.task[t].step = @ + 1]} }
    ELSE {Finally(W, t, "max_iterations", NoId)}

\* except Exception as e: the tool part is upserted in state error
ToolRaised(W, t, pid, i, why) ==
    [update_part(W, ToolPart(pid, W.task[t].assistant, W.task[t].session,
                             W.task[t].calls[i].id, W.task[t].calls[i].name,
                             "error", why))
       EXCEPT !.results = Append(@, [part |-> pid, outcome |-> "raised",
                                     error |-> why])]

\* the tool part is upserted in state completed
ToolCompleted(W, t, pid, i, result) ==
    [update_part(W, ToolPart(pid, W.task[t].assistant, W.task[t].session,
                             W.task[t].calls[i].id, W.task[t].calls[i].name,
                             "completed", "none"))
       EXCEPT !.results = Append(@, [part |-> pid, outcome |-> result.status,
                                     error |-> result.error])]

\* "Add tool result message": a user message, then a text part on
\* list_messages(session_id)[-1]
ToolResultMessage(W, t, pid, i, result) ==
    UNION { UNION { { update_part(generate_part_id(W2),
                          TextPart(W2.nextId.part, L[Len(L)].id, W2.task[t].session,
                                   ToolResultText(W2.task[t].calls[i].name, result)))
                      : L \in list_messages(W2, W2.task[t].session) }
                    : W2 \in {update_message(generate_message_id(W1),
                                 UserInfo(W1.nextId.message, W1.task[t].session,
                                          W1.now, pid))} }
            : W1 \in ReadClock(W) }

\* ToolRegistry.execute returned: the lines of the try block after the await
ToolReturned(W, t, pid, i, result) ==
    UNION { ToolResultMessage(W1, t, pid, i, result)
            : W1 \in {ToolCompleted(W, t, pid, i, result)} }

\* for tool_call in response.tool_calls, from the i-th call on, up to the
\* next suspension: a registered tool's execute, or the next provider call
RECURSIVE RunCalls(_, _, _)
RunCalls(W, t, i) ==
    IF Len(W.messages) > W.limits.msgs THEN {}
    ELSE IF i > Len(W.task[t].calls) THEN LoopHead(W, t)
    ELSE UNION {
           IF ~W1.task[t].calls[i].ctx
           \* execute(name, **arguments) without ctx: TypeError
           THEN UNION {RunCalls(W2, t, i + 1) :
                       W2 \in {ToolRaised(W1, t, W.nextId.part, i, "TypeError")}}
           ELSE IF W1.task[t].calls[i].name \notin RegisteredTools
           THEN UNION {RunCalls(W2, t, i + 1) :
                       W2 \in ToolReturned(W1, t, W.nextId.part, i, UnknownTool)}
           ELSE {[W1 EXCEPT !.task[t].pc = "tool",
                            !.task[t].idx = i,
                            !.task[t].toolPart = W.nextId.part]}
           : W1 \in {update_part(generate_part_id(W),
                        ToolPart(W.nextId.part, W.task[t].assistant, W.task[t].session,
                                 W.task[t].calls[i].id, W.task[t].calls[i].name,
                                 "running", "none"))} }

\* what execute(name, **tool_call.arguments) binds to the parameter ctx of a
\* registered tool: the value under the key "ctx" of the arguments the
\* provider wrote; no ToolContext is built, no abort signal is handed over
ExecuteCtx(W, t, i) ==
    [from |-> IF W.task[t].calls[i].ctx THEN "arguments" ELSE "missing",
     abort_signal |-> NoTask]

\* response.tool_calls as the for loop walks it: each call with the id the
\* provider gave it (its place in the response), in the order of the response
ToolCallsReversed(calls) ==
    [k \in 1..Len(calls) |->
        [id |-> Len(calls) + 1 - k, name |-> calls[Len(calls) + 1 - k].name,
         ctx |-> calls[Len(calls) + 1 - k].ctx,
         valid |-> calls[Len(calls) + 1 - k].valid]]

ToolCalls(calls) ==
    [k \in 1..Len(calls) |-> [id |-> k, name |-> calls[k].name, ctx |-> calls[k].ctx,
                              valid |-> calls[k].valid]]

\* provider.complete returned: the text part, when response.content is not empty
AssistantText(W, t, content) ==
    IF content
    THEN update_part(generate_part_id(W),
             TextPart(W.nextId.part, W.task[t].assistant, W.task[t].session, ContentText))
    ELSE W

SetFinish(W, t, finish) ==
    update_message(W, [W.messages[IndexOf(W.messages, W.task[t].assistant)]
                         EXCEPT !.finish = finish])

\* the else branch: finish "stop" and tokens = response.usage, in one upsert
SetStop(W, t, usage) ==
    update_message(W, [W.messages[IndexOf(W.messages, W.task[t].assistant)]
                         EXCEPT !.finish = "stop", !.tokens = usage])

AfterModel(W, t, content, calls, usage) ==
    UNION { IF calls # <<>>
            THEN UNION {RunCalls(W2, t, 1) : W2 \in {SetFinish(W1, t, "tool-calls")}}
            ELSE {Finally(SetStop(W1, t, usage), t, "returned",
                          W1.task[t].assistant)}
            : W1 \in {[AssistantText(W, t, content)
                         EXCEPT !.task[t].nModel = @ + 1,
                                !.task[t].calls = ToolCalls(calls)]} }

\* ---- SessionPrompt.prompt --------------------------------------------------
\* _create_user_message: the message row and its text part
CreateUserMessage(W, t, s) ==
    { update_part(generate_part_id(W2),
                  TextPart(W2.nextId.part, W.nextId.message, s, PromptText))
      : W2 \in {update_message(generate_message_id(W),
                               UserInfo(W.nextId.message, s, W.now, NoId))} }

\* prompt() after the user message: touch, set_permission, then the loop up
\* to its first suspension
PromptRest(W, W0, t, s, mid, tools, no_reply) ==
    UNION { IF no_reply
            THEN {[W1 EXCEPT !.task[t].outcome = "no_reply",
                             !.task[t].returned = mid]}
            ELSE UNION {LoopHead(W2, t) : W2 \in {[W1 EXCEPT !.busy[s] = t]}}
            : W1 \in {[(IF tools # "none"
                        THEN set_permission(touch(W, s), s, tools)
                        ELSE touch(W, s))
                         EXCEPT !.task[t] =
                          [IdleTask EXCEPT !.session = s, !.user = mid,
                                           !.wasBusy = \E u \in Tasks :
                                               /\ W0.task[u].pc # "idle"
                                               /\ W0.task[u].session = s]]} }

PromptRun(W, t, s, tools, no_reply) ==
    UNION { UNION { PromptRest(W2, W, t, s, W1.nextId.message, tools, no_reply)
                    : W2 \in CreateUserMessage(W1, t, s) }
            : W1 \in ReadClock(W) }

Fits(W) == Len(W.messages) <= W.limits.msgs

Prompts == {m \in RowSet(messages) : m.role = "user" /\ m.forCall = NoId}

\* ---- actions ---------------------------------------------------------------
Prompt(t, s, tools, no_reply) ==
    /\ task[t].pc = "idle"
    /\ SessionStored(World, s)
    /\ Cardinality(Prompts) < MaxPrompts
    /\ \E W0 \in {World} :
         \E W \in PromptRun(W0, t, s, tools, no_reply) : Fits(W) /\ Commit(W)
    /\ UNCHANGED upserts

\* tool calls of a response: the tool named, whether the arguments hold a
\* key "ctx", and whether they fit the parameters of the tool's definition
CallKinds == {[name |-> "read", ctx |-> FALSE, valid |-> TRUE],
              [name |-> "read", ctx |-> TRUE, valid |-> TRUE],
              [name |-> "nosuch", ctx |-> TRUE, valid |-> TRUE]}

Responses == UNION {[1..n -> CallKinds] : n \in 0..MaxCalls}

\* Response.usage as the providers fill it
Usages == {[k \in {"input_tokens", "output_tokens"} |->
               IF k = "input_tokens" THEN 10 ELSE 1]}

ModelReturn(t, content, calls, usage) ==
    /\ task[t].pc = "model"
    /\ Cardinality({p \in RowSet(parts) : p.type = "tool"}) + Len(calls) <= limits.calls
    /\ \E W0 \in {World} :
         \E W \in AfterModel(W0, t, content, calls, usage) : Fits(W) /\ Commit(W)
    /\ UNCHANGED upserts

\* provider.complete raises: the exception leaves the loop through finally
ModelRaise(t) ==
    /\ task[t].pc = "model"
    /\ \E W \in {Finally(World, t, "provider_error", NoId)} : Commit(W)
    /\ UNCHANGED upserts

\* a registered tool's execute returns a ToolResult
ToolReturn(t, result) ==
    /\ task[t].pc = "tool"
    /\ \E W0 \in {World} :
         \E W1 \in ToolReturned(W0, t, task[t].toolPart, task[t].idx, result) :
           \E W \in RunCalls(W1, t, task[t].idx + 1) : Fits(W) /\ Commit(W)
    /\ UNCHANGED upserts

\* a registered tool's execute raises
ToolRaise(t) ==
    /\ task[t].pc = "tool"
    /\ \E W1 \in {ToolRaised(World, t, task[t].toolPart, task[t].idx, "Exception")} :
         \E W \in RunCalls(W1, t, task[t].idx + 1) : Fits(W) /\ Commit(W)
    /\ UNCHANGED upserts

\* SessionPrompt.cancel
Cancel(s) ==
    /\ busy[s] # NoTask
    /\ task' = [u \in Tasks |->
                  [task[u] EXCEPT
                     !.abort = IF u = busy[s] THEN TRUE ELSE @,
                     !.cancelled = IF task[u].pc # "idle" /\ task[u].session = s
                                   THEN TRUE ELSE @,
                     !.runningAtCancel =
                         IF task[u].pc = "tool" /\ task[u].session = s
                         THEN task[u].toolPart ELSE @]]
    /\ task' # task
    /\ UNCHANGED <<sessions, messages, parts, events, now, nextId, busy,
                   results, ties, upserts, limits, effects, foreign_keys, txs,
                   permission_manager,
                   accounting,
                   bus,
                   bash,
                   ids,
                   store_db,
                   agent,
                   storage_state>>

\* input.tools of a prompt: none, or {"read": False}, which prompt() stores
\* as the session's ruleset [{permission: "read", action: "deny", pattern: "*"}]
Permissions == {"none", "deny-read"}

\* the tools a session's stored ruleset denies
DeniedTools(permission) == IF permission = "deny-read" THEN {"read"} ELSE {}

NoReply == {FALSE}
Contents == BOOLEAN

Next ==
    \/ \E t \in Tasks, s \in SessionIds, tools \in Permissions, no_reply \in NoReply :
          Prompt(t, s, tools, no_reply)
    \/ \E t \in Tasks, content \in Contents, calls \in Responses, usage \in Usages :
          ModelReturn(t, content, calls, usage)
    \/ \E t \in Tasks : ModelRaise(t)
    \/ \E t \in Tasks, result \in {Success, Failure} : ToolReturn(t, result)
    \/ \E t \in Tasks : ToolRaise(t)
    \/ \E s \in SessionIds : Cancel(s)

\* SessionManager.update_part called by another caller of the Store (the
\* PATCH part route): an upsert of an existing tool part with any state
UpdatePartApi(pid, status) ==
    /\ upserts < MaxUpserts
    /\ \E k \in 1..Len(parts) :
         /\ parts[k].id = pid
         /\ parts[k].type = "tool"
         /\ \E W \in {update_part(World, [parts[k] EXCEPT !.status = status])} :
              Commit(W)
    /\ upserts' = upserts + 1

ToolStates == {"pending", "running", "completed", "error"}

\* every caller, every session
Spec == Init /\ [][Next]_vars

\* one prompt, submitted to a session without messages
Caller == {"t1"}

NextOne ==
    \/ \E t \in Caller, s \in SessionIds, tools \in Permissions, no_reply \in NoReply :
          messages = <<>> /\ Prompt(t, s, tools, no_reply)
    \/ \E t \in Caller, content \in Contents, calls \in Responses, usage \in Usages :
          ModelReturn(t, content, calls, usage)
    \/ \E t \in Caller : ModelRaise(t)
    \/ \E t \in Caller, result \in {Success, Failure} : ToolReturn(t, result)
    \/ \E t \in Caller : ToolRaise(t)
    \/ \E s \in SessionIds : Cancel(s)

SpecOne == Init /\ [][NextOne]_vars

\* one prompt, and part upserts through the Store API
NextStore ==
    \/ NextOne
    \/ \E k \in 1..Len(parts), status \in ToolStates :
          UpdatePartApi(parts[k].id, status)

SpecStore == Init /\ [][NextStore]_vars

\* the Store on its own: its operations called one after another, each
\* transaction committing or failing at commit, on a connection that
\* enforces foreign keys or does not
InitDb ==
    /\ sessions = [s \in RowSet(SessionSeq) |->
                      IF s \in SessionIds THEN StoredSession ELSE NoSession]
    /\ messages = <<>>
    /\ parts = <<>>
    /\ events = <<>>
    /\ now = 0
    /\ nextId = [message |-> 1, part |-> 1, session |-> 2]
    /\ busy = [s \in SessionIds |-> NoTask]
    /\ task = [t \in Tasks |-> IdleTask]
    /\ results = <<>>
    /\ ties = 0
    /\ upserts = 0
    /\ limits = [msgs |-> MaxMsgs, calls |-> MaxCalls]
    /\ effects = <<>>
    /\ foreign_keys \in BOOLEAN
    /\ txs = <<>>
    /\ permission_manager = load(NoFile, 1, 0)
    /\ storage_state = NoStorage
    /\ agent = NoAgent
    /\ store_db = NoStoreDb
    /\ ids = NoIds
    /\ bash = NoBash
    /\ bus = NoBus
    /\ accounting = NoAccounting

MessageIds == {1, 2}
PartIds == {1}

Create(created, shared) ==
    /\ Len(txs) + 2 <= MaxTx
    /\ nextId.session <= Len(SessionSeq)
    /\ \E W \in {create(World, NoParent, DefaultTitle, created, shared)} : Commit(W)
    /\ UNCHANGED upserts

Delete(s, unshared, deleted) ==
    /\ Len(txs) + 2 <= MaxTx
    /\ SessionStored(World, s)
    /\ \E W \in {delete(World, s, unshared, deleted)} : Commit(W)
    /\ UNCHANGED upserts

UpdateMessage(mid, s, outcome) ==
    /\ Len(txs) < MaxTx
    /\ \E W \in {update_message_tx(Begin(World, "update_message"),
                                    UserInfo(mid, s, now, NoId), outcome)} :
          Commit(W)
    /\ UNCHANGED upserts

UpdatePart(pid, mid, s, status, outcome) ==
    /\ Len(txs) < MaxTx
    /\ \E W \in {update_part_tx(Begin(World, "update_part"),
                                 ToolPart(pid, mid, s, 1, "read", status, "none"),
                                 outcome)} :
          Commit(W)
    /\ UNCHANGED upserts

RemoveMessage(s, mid, outcome) ==
    /\ Len(txs) < MaxTx
    /\ \E W \in {remove_message_tx(Begin(World, "remove_message"), s, mid, outcome)} :
          Commit(W)
    /\ UNCHANGED upserts

RemovePart(s, pid, outcome) ==
    /\ Len(txs) < MaxTx
    /\ \E W \in {remove_part_tx(Begin(World, "remove_part"), s, pid, outcome)} :
          Commit(W)
    /\ UNCHANGED upserts

Touch(s, outcome) ==
    /\ Len(txs) < MaxTx
    /\ \E W \in {touch_tx(Begin(World, "touch"), s, outcome)} : Commit(W)
    /\ UNCHANGED upserts

NextDb ==
    \/ \E s \in RowSet(SessionSeq), outcome \in UseOutcomes : Touch(s, outcome)
    \/ \E created \in UseOutcomes, shared \in UseOutcomes : Create(created, shared)
    \/ \E s \in RowSet(SessionSeq), unshared \in UseOutcomes, deleted \in UseOutcomes :
          Delete(s, unshared, deleted)
    \/ \E mid \in MessageIds, s \in RowSet(SessionSeq), outcome \in UseOutcomes :
          UpdateMessage(mid, s, outcome)
    \/ \E pid \in PartIds, mid \in MessageIds, status \in {"running", "completed"},
          outcome \in UseOutcomes :
          UpdatePart(pid, mid, "s1", status, outcome)
    \/ \E mid \in MessageIds, outcome \in UseOutcomes :
          RemoveMessage("s1", mid, outcome)
    \/ \E pid \in PartIds, outcome \in UseOutcomes : RemovePart("s1", pid, outcome)

SpecDb == InitDb /\ [][NextDb]_vars

\* forks of the sessions, at any message or of the whole session, between
\* the steps of one prompt
MaxForks == 1

Cutoffs(s) == {NoId} \cup {m.id : m \in {x \in RowSet(messages) : x.sessionID = s}}

Fork(s, message_id) ==
    /\ nextId.session <= Len(SessionSeq)
    /\ nextId.session <= MaxForks + 1
    /\ SessionStored(World, s)
    /\ \E W \in fork(World, s, message_id) : Commit(W)
    /\ UNCHANGED upserts

InitFork ==
    /\ sessions = [s \in RowSet(SessionSeq) |->
                      IF s \in SessionIds THEN StoredSession ELSE NoSession]
    /\ messages = <<>>
    /\ parts = <<>>
    /\ events = <<>>
    /\ now = 0
    /\ nextId = [message |-> 1, part |-> 1, session |-> 2]
    /\ busy = [s \in SessionIds |-> NoTask]
    /\ task = [t \in Tasks |-> IdleTask]
    /\ results = <<>>
    /\ ties = 0
    /\ upserts = 0
    /\ limits = [msgs |-> MaxMsgs, calls |-> MaxCalls]
    /\ effects = <<>>
    /\ foreign_keys = FALSE
    /\ txs = <<>>
    /\ permission_manager = load(NoFile, 1, 0)
    /\ storage_state = NoStorage
    /\ agent = NoAgent
    /\ store_db = NoStoreDb
    /\ ids = NoIds
    /\ bash = NoBash
    /\ bus = NoBus
    /\ accounting = NoAccounting

NextFork ==
    \/ NextOne
    \/ \E s \in RowSet(SessionSeq) : \E message_id \in Cutoffs(s) : Fork(s, message_id)

SpecFork == InitFork /\ [][NextFork]_vars

\* sessions, their titles and their forks: the first session has any of
\* the titles, sessions get children, new titles and forks
Titles == {<<Ch("a")>>,
           <<Ch("a"), Ch(" "), ForkMark(1)>>,
           <<Ch("a"), ForkMark(1)>>,
           <<Ch(" "), ForkMark(1)>>,
           <<ForkMark(1)>>}

InitTitle ==
    /\ \E title \in Titles :
          sessions = [s \in RowSet(SessionSeq) |->
                         IF s \in SessionIds
                         THEN [StoredSession EXCEPT !.title = title]
                         ELSE NoSession]
    /\ messages = <<>>
    /\ parts = <<>>
    /\ events = <<>>
    /\ now = 0
    /\ nextId = [message |-> 1, part |-> 1, session |-> 2]
    /\ busy = [s \in SessionIds |-> NoTask]
    /\ task = [t \in Tasks |-> IdleTask]
    /\ results = <<>>
    /\ ties = 0
    /\ upserts = 0
    /\ limits = [msgs |-> MaxMsgs, calls |-> MaxCalls]
    /\ effects = <<>>
    /\ foreign_keys = FALSE
    /\ txs = <<>>
    /\ permission_manager = load(NoFile, 1, 0)
    /\ storage_state = NoStorage
    /\ agent = NoAgent
    /\ store_db = NoStoreDb
    /\ ids = NoIds
    /\ bash = NoBash
    /\ bus = NoBus
    /\ accounting = NoAccounting

CreateChild(parent_id) ==
    /\ Len(txs) < MaxTx
    /\ nextId.session <= Len(SessionSeq)
    /\ SessionStored(World, parent_id)
    /\ \E W \in {create(World, parent_id, DefaultTitle, "commit", "commit")} :
          Commit(W)
    /\ UNCHANGED upserts

SetTitle(s, title, outcome) ==
    /\ Len(txs) < MaxTx
    /\ \E W \in {set_title(Begin(World, "set_title"), s, title, outcome)} : Commit(W)
    /\ UNCHANGED upserts

NextTitle ==
    \/ \E s \in RowSet(SessionSeq) : Fork(s, NoId)
    \/ \E s \in RowSet(SessionSeq) : CreateChild(s)
    \/ \E s \in RowSet(SessionSeq), title \in Titles : SetTitle(s, title, "commit")

SpecTitle == InitTitle /\ [][NextTitle]_vars

\* the PermissionManager on its own: rules are added and removed, time
\* passes, and the process starts again on the file the last one left
MaxRules == 2         \* rules added
MaxClock == 2         \* the clock readings followed
MaxLoads == 2         \* the times a PermissionManager is constructed

RuleTools == {"read"}
CheckedTools == {"read", "search", "write", "edit", "shell", "bash", "unknown"}
PermissionLevels == {"allow", "ask", "deny"}
Patterns == {NoPattern, "*.txt"}
Contexts == {NoContext, PathContext(""), PathContext("a.txt"), PathContext("a.py")}

PermissionOp(pm) ==
    /\ Commit([World EXCEPT !.permission_manager = pm])
    /\ UNCHANGED upserts

AddRule(tool, level, pattern, expires_in_seconds, session_only) ==
    /\ permission_manager.added < MaxRules
    /\ PermissionOp(add_rule(permission_manager, tool, level, pattern,
                             expires_in_seconds, session_only, now))

RemoveRules(tool, pattern) ==
    PermissionOp(remove_rules(permission_manager, tool, pattern))

ClearSessionRules == PermissionOp(clear_session_rules(permission_manager))

Restart ==
    /\ permission_manager.loads < MaxLoads
    /\ PermissionOp(load(permission_manager.storage, permission_manager.loads + 1,
                          permission_manager.added))

Tick ==
    /\ now < MaxClock
    /\ now' = now + 1
    /\ UNCHANGED <<sessions, messages, parts, events, nextId, busy, task, results,
                   ties, upserts, limits, effects, foreign_keys, txs,
                   permission_manager,
                   accounting,
                   bus,
                   bash,
                   ids,
                   store_db,
                   agent,
                   storage_state>>

NextPermission ==
    \/ \E tool \in RuleTools, level \in PermissionLevels, pattern \in Patterns,
          expires_in_seconds \in {0, 1}, session_only \in BOOLEAN :
          AddRule(tool, level, pattern, expires_in_seconds, session_only)
    \/ \E tool \in RuleTools \cup {"None"}, pattern \in Patterns :
          RemoveRules(tool, pattern)
    \/ ClearSessionRules
    \/ Restart
    \/ Tick

SpecPermission == Init /\ [][NextPermission]_vars

\* one prompt whose tool calls name the registered tool with arguments that
\* fit its parameters or do not (filePath missing, or not a string)
ArgumentKinds == {[name |-> "read", ctx |-> TRUE, valid |-> TRUE],
                  [name |-> "read", ctx |-> TRUE, valid |-> FALSE]}

ArgumentResponses == UNION {[1..n -> ArgumentKinds] : n \in 0..MaxCalls}

NextArguments ==
    \/ \E t \in Caller, s \in SessionIds :
          messages = <<>> /\ Prompt(t, s, "none", FALSE)
    \/ \E t \in Caller, calls \in ArgumentResponses, usage \in Usages :
          ModelReturn(t, TRUE, calls, usage)
    \/ \E t \in Caller, result \in {Success, Failure} : ToolReturn(t, result)
    \/ \E t \in Caller : ToolRaise(t)

SpecArguments == Init /\ [][NextArguments]_vars

\* histories with compactions, written through the Store: user messages
\* with or without a compaction part, assistant messages that answer the
\* last user message, summaries or not, finished or not; no two in the
\* same millisecond
MaxHistory == 6

CompactionPart(id, mid, s) == [TextPart(id, mid, s, NoText) EXCEPT !.type = "compaction"]

InitCompact ==
    /\ sessions = [s \in SessionIds |-> StoredSession]
    /\ messages = <<>>
    /\ parts = <<>>
    /\ events = <<>>
    /\ now = 0
    /\ nextId = [message |-> 1, part |-> 1, session |-> 2]
    /\ busy = [s \in SessionIds |-> NoTask]
    /\ task = [t \in Tasks |-> IdleTask]
    /\ results = <<>>
    /\ ties = MaxTies
    /\ upserts = 0
    /\ limits = [msgs |-> MaxHistory, calls |-> MaxCalls]
    /\ effects = <<>>
    /\ foreign_keys = FALSE
    /\ txs = <<>>
    /\ permission_manager = load(NoFile, 1, 0)
    /\ storage_state = NoStorage
    /\ agent = NoAgent
    /\ store_db = NoStoreDb
    /\ ids = NoIds
    /\ bash = NoBash
    /\ bus = NoBus
    /\ accounting = NoAccounting

UpsertUser(s, compaction) ==
    /\ Len(messages) < MaxHistory
    /\ \E W1 \in ReadClock(World) :
         \E W2 \in {update_message(generate_message_id(W1),
                                   UserInfo(W1.nextId.message, s, W1.now, NoId))} :
           IF compaction
           THEN Commit(update_part(generate_part_id(W2),
                           CompactionPart(W2.nextId.part, W1.nextId.message, s)))
           ELSE Commit(W2)
    /\ UNCHANGED upserts

UpsertAssistant(s, summary, finish) ==
    /\ Len(messages) < MaxHistory
    /\ messages # <<>>
    /\ messages[Len(messages)].role = "user"
    /\ \E W1 \in ReadClock(World) :
         Commit(update_message(generate_message_id(W1),
                  [AssistantInfo(W1.nextId.message, s, W1.now,
                                 messages[Len(messages)].id)
                     EXCEPT !.summary = summary, !.finish = finish]))
    /\ UNCHANGED upserts

NextCompact ==
    \/ \E s \in SessionIds, compaction \in BOOLEAN : UpsertUser(s, compaction)
    \/ \E s \in SessionIds, summary \in BOOLEAN, finish \in {"none", "stop"} :
          UpsertAssistant(s, summary, finish)

SpecCompact == InitCompact /\ [][NextCompact]_vars

\* one prompt followed through all the steps of its loop: the clock advances
\* at every reading, every response has content, and a response either ends
\* the turn or holds one call, which raises
StepMsgs == max_steps + 1
StepCalls == max_steps

InitSteps ==
    /\ sessions = [s \in SessionIds |-> StoredSession]
    /\ messages = <<>>
    /\ parts = <<>>
    /\ events = <<>>
    /\ now = 0
    /\ nextId = [message |-> 1, part |-> 1, session |-> 2]
    /\ busy = [s \in SessionIds |-> NoTask]
    /\ task = [t \in Tasks |-> IdleTask]
    /\ results = <<>>
    /\ ties = MaxTies
    /\ upserts = 0
    /\ limits = [msgs |-> StepMsgs, calls |-> StepCalls]
    /\ effects = <<>>
    /\ foreign_keys = FALSE
    /\ txs = <<>>
    /\ permission_manager = load(NoFile, 1, 0)
    /\ storage_state = NoStorage
    /\ agent = NoAgent
    /\ store_db = NoStoreDb
    /\ ids = NoIds
    /\ bash = NoBash
    /\ bus = NoBus
    /\ accounting = NoAccounting

StepResponses == {<<>>, <<[name |-> "read", ctx |-> FALSE, valid |-> TRUE]>>}

NextSteps ==
    \/ \E t \in Caller, s \in SessionIds, tools \in Permissions, no_reply \in NoReply :
          messages = <<>> /\ Prompt(t, s, tools, no_reply)
    \/ \E t \in Caller, calls \in StepResponses, usage \in Usages :
          ModelReturn(t, TRUE, calls, usage)
    \/ \E s \in SessionIds : Cancel(s)

SpecSteps == InitSteps /\ [][NextSteps]_vars

\* ---- properties -----------------------------------------------------------
\* a loop of caller t is between its first line and its finally block
LoopActive(t) == task[t].pc \in {"model", "tool"}

ActiveOn(s) == {t \in Tasks : LoopActive(t) /\ task[t].session = s}

\* caller t has its prompt on session s taken in this step
Submits(t, s) ==
    \E tools \in Permissions, no_reply \in NoReply : Prompt(t, s, tools, no_reply)

\* C1: of two prompts submitted to one session, the second arriving while the
\* loop of the first is still active, exactly one runs and the other is
\* rejected as busy: a session never has two loops active at once, and a
\* prompt that found the session busy has ended with the busy outcome.
C1_OneLoopPerSession ==
    /\ \A s \in SessionIds : Cardinality(ActiveOn(s)) <= 1
    /\ \A t \in Tasks :
         task[t].wasBusy => (task[t].pc = "idle" /\ task[t].outcome = "busy")

\* C2: a prompt submitted to a session whose loop is active changes nothing:
\* no message or part is written, the session row is as it was, no event is
\* published, and the busy entry and the abort signal of the running loop
\* are untouched.
C2_BusyPromptChangesNothing ==
    [][\A t \in Tasks, s \in SessionIds :
          (ActiveOn(s) # {} /\ Submits(t, s)) =>
              /\ UNCHANGED <<sessions, messages, parts, events, busy>>
              /\ \A u \in ActiveOn(s) : task'[u].abort = task[u].abort]_vars

\* C3: a prompt accepted on an idle session, whose provider calls return and
\* which nobody cancels, ends by returning an assistant message that answers
\* the user message of that prompt and carries a finish reason, after at
\* least one model call; also when the session already holds earlier turns.
C3_PromptEndsInAnswer ==
    \A t \in Tasks :
        (/\ task[t].pc = "idle"
         /\ task[t].outcome \notin {"none", "provider_error"}
         /\ ~task[t].wasBusy
         /\ ~task[t].cancelled)
        => /\ task[t].outcome = "returned"
           /\ task[t].nModel >= 1
           /\ \E m \in RowSet(messages) :
                /\ m.id = task[t].returned
                /\ m.role = "assistant"
                /\ m.parentID = task[t].user
                /\ m.finish \notin {"none", "tool-calls"}

ToolParts == {p \in RowSet(parts) : p.type = "tool"}

PartById(pid) == parts[IndexOf(parts, pid)]

\* the message.part.updated events of part pid, as positions in the event log
PartEvents(pid) ==
    {k \in 1..Len(events) :
        events[k].type = "message.part.updated" /\ events[k].id = pid}

\* C4: the state of a tool part only moves pending -> running ->
\* (completed | error), never back and never on from a terminal state,
\* whatever loop steps and Store part upserts are applied.
C4_ToolStateMonotonic ==
    [][\A k \in 1..Len(parts) :
          parts[k].type = "tool" =>
              \/ parts'[k].status = parts[k].status
              \/ <<parts[k].status, parts'[k].status>> \in
                     {<<"pending", "running">>, <<"running", "completed">>,
                      <<"running", "error">>}]_vars

\* C5: when ToolRegistry.execute returns a result, the tool part ends
\* completed exactly when the result's status is success and ends error
\* exactly when it is error (an unknown tool and rejected arguments included).
C5_StateFollowsResult ==
    \A k \in 1..Len(results) :
        results[k].outcome \in {"success", "error"} =>
            /\ PartById(results[k].part).status = "completed"
                   <=> results[k].outcome = "success"
            /\ PartById(results[k].part).status = "error"
                   <=> results[k].outcome = "error"

\* C6: a failed tool call (an error result or a raised exception) leaves its
\* tool part in state error and a synthetic user message carrying the error
\* text in the session, for the next model call to read.
C6_ToolErrorIsReported ==
    \A k \in 1..Len(results) :
        results[k].outcome \in {"error", "raised"} =>
            /\ PartById(results[k].part).status = "error"
            /\ \E m \in RowSet(messages) :
                 /\ m.role = "user"
                 /\ m.forCall = results[k].part
                 /\ \E p \in RowSet(parts) :
                      /\ p.messageID = m.id
                      /\ p.type = "text"
                      /\ p.text.payload = results[k].error

\* C7: every tool call whose result came back has a synthetic user message
\* of its own, and the text part with the result is attached to that message.
C7_ResultPartOnNewMessage ==
    \A m \in RowSet(messages) :
        (m.role = "user" /\ m.forCall # NoId) =>
            \E p \in RowSet(parts) :
                /\ p.type = "text"
                /\ p.text.kind = "tool-result"
                /\ p.messageID = m.id

Terminal == {"completed", "error"}

ToolPartIds(rows) == {rows[k].id : k \in {j \in 1..Len(rows) : rows[j].type = "tool"}}

\* C8: the tool calls of one response are executed one at a time in the
\* order of the response: a later call has a tool part only when every
\* earlier call of the same assistant message has reached a terminal state,
\* and all part events of the earlier call come before those of the later.
C8_CallsRunInOrder ==
    \A p \in ToolParts, q \in ToolParts :
        (p.messageID = q.messageID /\ p.callID < q.callID) =>
            /\ p.status \in Terminal
            /\ \A i \in PartEvents(p.id), j \in PartEvents(q.id) : i < j

\* C8 happens: a response with two calls, the first a registered tool whose
\* execute was awaited and came back, the second now awaited
C8_SecondCallRunning ==
    \E p \in ToolParts, q \in ToolParts :
        /\ p.messageID = q.messageID
        /\ p.callID < q.callID
        /\ \E k \in 1..Len(results) :
             results[k].part = p.id /\ results[k].outcome = "success"
        /\ q.status = "running"
        /\ \E t \in Tasks : task[t].pc = "tool" /\ task[t].toolPart = q.id

\* C9: a loop that was cancelled while it ran ends in the aborted outcome,
\* which is neither an error nor the exhaustion of the step limit, and
\* leaves no tool part of the session incomplete: the part that was running
\* when cancel fired is in state error with reason "User aborted".
C9_CancelEndsAborted ==
    \A t \in Tasks :
        (task[t].cancelled /\ task[t].pc = "idle"
            /\ task[t].outcome # "provider_error") =>
            /\ task[t].outcome = "aborted"
            /\ \A p \in ToolParts :
                 p.sessionID = task[t].session => p.status \in Terminal
            /\ task[t].runningAtCancel # NoId =>
                 /\ PartById(task[t].runningAtCancel).status = "error"
                 /\ PartById(task[t].runningAtCancel).error = "User aborted"

\* C10: once cancel has returned, the cancelled loop starts no new model
\* call and no new tool call.
C10_NothingStartsAfterCancel ==
    [][\A t \in Tasks :
          (task[t].cancelled /\ LoopActive(t)) =>
              /\ ToolPartIds(parts') \subseteq ToolPartIds(parts)
              /\ ~(task'[t].pc = "model"
                     /\ task'[t].assistant # task[t].assistant)]_vars

\* C11: the context a running tool was given carries the abort signal of its
\* session: once cancel(s) has been called, every tool running for s sees
\* its context as aborted.
C11_ToolSeesAbort ==
    \A t \in Tasks :
        (task[t].pc = "tool" /\ task[t].cancelled) =>
            LET ctx == ExecuteCtx(World, t, task[t].idx) IN
            /\ ctx.abort_signal # NoTask
            /\ task[ctx.abort_signal].abort

\* C12: a session is marked busy exactly while a loop runs for it, and the
\* busy entry is the abort signal of that loop, so that cancel reaches it;
\* once no loop runs for the session, it is not busy.
C12_BusyWhileLoopRuns ==
    /\ \A t \in Tasks : LoopActive(t) => busy[task[t].session] = t
    /\ \A s \in SessionIds : ActiveOn(s) = {} => busy[s] = NoTask

Assistants == {m \in RowSet(messages) : m.role = "assistant"}

\* C14: a model call that returns neither content nor tool calls leaves the
\* assistant message of the step with finish unknown.
C14_EmptyResponseIsUnknown ==
    \A m \in Assistants :
        (m.finish # "none" /\ PartsOf(World, m.id) = {}) => m.finish = "unknown"

\* C15: an assistant message that ended a turn with content and no tool
\* calls holds the content as a text part, a finish reason, and token totals
\* as the accounting computes them: tokens.total is the sum of the usage
\* components of the response.
C15_TokensTotalIsSum ==
    \A m \in Assistants :
        (/\ m.finish \notin {"none", "tool-calls"}
         /\ \E p \in PartsOf(World, m.id) : p.type = "text")
        => /\ "total" \in DOMAIN m.tokens
           /\ \E u \in Usages :
                m.tokens["total"] = u["input_tokens"] + u["output_tokens"]

\* C16: when provider.complete raises, the loop ends, the session is no
\* longer held busy by that loop, and the error is stored on the assistant
\* message of the step.
C16_ProviderErrorPersisted ==
    \A t \in Tasks :
        (task[t].pc = "idle" /\ task[t].outcome = "provider_error") =>
            /\ busy[task[t].session] # t
            /\ \E m \in Assistants :
                 /\ m.sessionID = task[t].session
                 /\ m.parentID = task[t].user
                 /\ m.error # "none"

\* C13: a loop makes at most max_steps model calls, and a loop whose every
\* response held tool calls until the step counter ran out ends with an
\* assistant text part "Max iterations reached" on an assistant message
\* whose finish is length.
C13_StepLimitWritesLength ==
    \A t \in Tasks :
        /\ task[t].nModel <= max_steps
        /\ (task[t].pc = "idle" /\ task[t].nModel = max_steps
               /\ task[t].outcome \notin {"none", "returned"}
               /\ ~task[t].cancelled) =>
              \E m \in Assistants :
                  /\ m.sessionID = task[t].session
                  /\ m.finish = "length"
                  /\ \E p \in PartsOf(World, m.id) :
                       p.type = "text" /\ p.text.payload = "Max iterations reached"
\* C17: events are published only after the transaction that wrote them
\* committed: every message.part.updated event that is delivered refers to
\* a part that can be read from the Store at the moment of delivery.
Delivered == { i \in 1..Len(events') : i > Len(events) }

C17_PartEventReadable ==
    [][\A i \in Delivered :
         events'[i].type = "message.part.updated"
             => \E k \in 1..Len(parts') : parts'[k].id = events'[i].id]_vars

\* C18: a Store operation that fails rolls back and discards every effect it
\* registered: nothing of a transaction that did not commit is published,
\* then or by a later operation, and nothing of it stays registered.
OfFailedTx(e) == e.tx # 0 /\ ~txs[e.tx].committed

C18_FailedOperationPublishesNothing ==
    /\ \A i \in 1..Len(events) : ~OfFailedTx(events[i])
    /\ \A i \in 1..Len(effects) : ~OfFailedTx(effects[i])

\* C19: the events of a transaction are delivered in the order of their
\* registration and only after the commit of that transaction: what one
\* operation delivers is of committed transactions, in registration order.
C19_DeliveredInOrderAfterCommit ==
    [][/\ \A i \in Delivered :
            events'[i].tx # 0 => txs'[events'[i].tx].committed
       /\ \A i \in Delivered, j \in Delivered :
            (i < j /\ events'[i].tx # 0 /\ events'[j].tx # 0)
                => events'[i].tx <= events'[j].tx]_vars

\* C20: after any sequence of Store operations every stored part belongs to
\* a stored message and every stored message to a stored session.
C20_NoOrphans ==
    /\ \A k \in 1..Len(parts) : IndexOf(messages, parts[k].messageID) # 0
    /\ \A k \in 1..Len(messages) : SessionStored(World, messages[k].sessionID)

\* C21: after any sequence of prompts, loop steps and forks, the parent_id
\* of every assistant message is the id of a user message of the same
\* session (in a forked child: of the clone of the original parent).
C21_AssistantParentIsUser ==
    \A m \in RowSet(messages) :
        m.role = "assistant"
            => \E u \in RowSet(messages) :
                   u.id = m.parentID /\ u.role = "user" /\ u.sessionID = m.sessionID

\* C22: a fork at the k-th message of a session (in creation order) gives a
\* child that holds exactly the k-1 messages before the cutoff, cloned
\* under ids that the parent does not use.
MessagesIn(rows, s) == {m \in RowSet(rows) : m.sessionID = s}

C22_ForkClonesPrefix ==
    [][\A s \in RowSet(SessionSeq) : \A message_id \in Cutoffs(s) \ {NoId} :
         Fork(s, message_id)
             => LET child == MessagesIn(messages', SessionSeq[nextId.session])
                    before == {m \in MessagesIn(messages, s) : m.id < message_id}
                IN  /\ Cardinality(child) = Cardinality(before)
                    /\ \A c \in child : \A m \in MessagesIn(messages, s) :
                           c.id # m.id]_vars

\* C23 as stated: a fork is a new root session, absent from the children of
\* the session it was forked from, and its title is the title of that
\* session with " (fork #1)" appended when that title does not end in a
\* fork mark, and with the number of the mark increased by one when it does.
ForkOf(s) == SessionSeq[nextId.session]

IsRootFork(s) ==
    /\ sessions'[ForkOf(s)].exists
    /\ sessions'[ForkOf(s)].parent_id = NoParent
    /\ ForkOf(s) \notin children([sessions |-> sessions'], s)

EndsInForkMark(title) == Len(title) >= 1 /\ title[Len(title)].ch = "fork"

HasForkSuffix(title) ==
    /\ EndsInForkMark(title)
    /\ Len(title) >= 3
    /\ title[Len(title) - 1].ch = " "

StoreUnchanged == UNCHANGED <<sessions, messages, parts, events, effects>>

C24_UnknownIdChangesNothing ==
    [][/\ \A s \in RowSet(SessionSeq) :
            (/\ ~SessionStored(World, s)
             /\ \/ \E outcome \in UseOutcomes : Touch(s, outcome)
                \/ \E title \in Titles : SetTitle(s, title, "commit"))
                => StoreUnchanged
       /\ \A mid \in MessageIds :
            (/\ IndexOf(messages, mid) = 0
             /\ \E outcome \in UseOutcomes : RemoveMessage("s1", mid, outcome))
                => StoreUnchanged
       /\ \A pid \in PartIds :
            (/\ IndexOf(parts, pid) = 0
             /\ \E outcome \in UseOutcomes : RemovePart("s1", pid, outcome))
                => StoreUnchanged]_vars

\* C25: a tool call that the permission rules of its session deny is never
\* executed: no executor runs, and none has returned, for a tool that the
\* session's ruleset denies.
Executed == {r.part : r \in {x \in RowSet(results) : x.outcome \in {"success", "error"}
                                                       /\ x.error # "Unknown tool"}}

C25_DeniedToolNeverRuns ==
    /\ \A t \in Tasks :
         task[t].pc = "tool"
             => task[t].calls[task[t].idx].name
                    \notin DeniedTools(sessions[task[t].session].permission)
    /\ \A p \in ToolParts :
         p.id \in Executed => p.tool \notin DeniedTools(sessions[p.sessionID].permission)

\* C26: check returns the level of the latest matching session rule when a
\* session rule matches, else the level of the latest matching persistent
\* rule, else ask; after any additions and removals of rules.
MatchingIn(rules, tool, context) ==
    {k \in 1..Len(rules) : matches(rules[k], tool, context, now)}

Latest(S) == CHOOSE k \in S : \A j \in S : j <= k

C26_LatestSessionRuleFirst ==
    \A tool \in CheckedTools, context \in Contexts :
        LET pm == permission_manager
            S == MatchingIn(pm.session_rules, tool, context)
            P == MatchingIn(pm.rules, tool, context)
        IN  check_permission(pm, tool, context, now) =
                IF S # {} THEN pm.session_rules[Latest(S)].level
                ELSE IF P # {} THEN pm.rules[Latest(P)].level
                ELSE "ask"

\* a request matched by a session rule and by two persistent rules of
\* other levels
C26_SessionAndPersistentMatch ==
    \E tool \in CheckedTools, context \in Contexts :
        LET pm == permission_manager
            S == MatchingIn(pm.session_rules, tool, context)
            P == MatchingIn(pm.rules, tool, context)
        IN  /\ S # {}
            /\ Cardinality(P) >= 2
            /\ pm.session_rules[Latest(S)].level # pm.rules[Latest(P)].level
            /\ \E k \in P : pm.rules[k].level # pm.rules[Latest(P)].level

\* C27: a rule matches a request only when its tool is the requested tool,
\* its expiry, if it has one, is in the future, and its pattern, if it has
\* one, matches the path of the context; a request no rule matches gets ask.
MatchesAsSpecified(rule, tool, context) ==
    /\ rule.tool = tool
    /\ rule.expires_at = NoExpiry \/ rule.expires_at > now
    /\ rule.pattern = NoPattern
           \/ (context.given /\ fnmatch(context.path, rule.pattern))

AllRules == RowSet(permission_manager.rules) \cup RowSet(permission_manager.session_rules)

C27_RuleMatchesOnlyAsSpecified ==
    \A tool \in CheckedTools, context \in Contexts :
        /\ \A rule \in AllRules :
               matches(rule, tool, context, now)
                   => MatchesAsSpecified(rule, tool, context)
        /\ (\A rule \in AllRules : ~matches(rule, tool, context, now))
               => check_permission(permission_manager, tool, context, now) = "ask"

\* C28: without user configuration (no permissions.json, no session rule)
\* check gives allow for read and search and ask for write, edit, shell,
\* bash and a tool without rule, whatever the context.
NoUserConfiguration ==
    /\ ~permission_manager.storage.exists
    /\ permission_manager.session_rules = <<>>

C28_DefaultPermissions ==
    NoUserConfiguration =>
        \A tool \in CheckedTools, context \in Contexts :
            check_permission(permission_manager, tool, context, now) =
                IF tool \in {"read", "search"} THEN "allow" ELSE "ask"

\* a manager constructed again with no file, after a session rule of the
\* manager before it
C28_StartedAgainWithoutFile ==
    /\ NoUserConfiguration
    /\ permission_manager.loads >= 2
    /\ permission_manager.added >= 1

\* C29: the arguments of every tool call are validated against the
\* parameters of the tool before its executor is invoked: no executor runs,
\* and none has returned or raised, for a call whose arguments do not fit.
C29_InvalidArgumentsNeverRun ==
    \A t \in Tasks :
        task[t].pc = "tool" => task[t].calls[task[t].idx].valid

\* C30: when a user message with a compaction part has been answered by a
\* finished summary of the assistant, the history projected for the next
\* step is exactly the messages after that exchange, oldest first: for u1,
\* a1, u2(+compaction), a2(finished summary), u3, a3 it is u3, a3.
CompactionAnswered(k, j) ==
    /\ k < j
    /\ messages[k].role = "user"
    /\ \E p \in PartsOf(World, messages[k].id) : p.type = "compaction"
    /\ messages[j].role = "assistant"
    /\ messages[j].summary
    /\ messages[j].finish # "none"
    /\ messages[j].parentID = messages[k].id

Answers == {j \in 1..Len(messages) : \E k \in 1..Len(messages) : CompactionAnswered(k, j)}

C30_ProjectionStartsAfterCompaction ==
    Answers # {} =>
        \A L \in list_messages(World, "s1") :
            filter_compacted(World, L) =
                SubSeq(messages, Latest(Answers) + 1, Len(messages))


\* ---- token accounting: calls of SessionManager.calculate_usage ------------
MaxTokens == 3

InputValues == {Absent, NoneValue, NotFinite} \cup {Num(n) : n \in (0 - 1)..MaxTokens}
OutputValues == {Num(0), Num(MaxTokens), NotFinite}
ReasoningValues == {Absent, Num(1)}
CachedValues == {Absent, Num(1), Num(MaxTokens)}
TotalValues == {Absent, Num(2 * MaxTokens)}
UsageDicts ==
    [inputTokens : InputValues, outputTokens : OutputValues,
     reasoningTokens : ReasoningValues, cachedInputTokens : CachedValues,
     totalTokens : TotalValues]
Metadatas ==
    {NoMetadata} \cup [provider : {"anthropic", "bedrock", "venice"},
                       cache_write : {Absent, Num(2)}]
Models == [npm : {"@ai-sdk/anthropic", "@ai-sdk/openai"}]

InitUsage ==
    /\ sessions = [s \in SessionIds |-> StoredSession]
    /\ messages = <<>>
    /\ parts = <<>>
    /\ events = <<>>
    /\ now = 0
    /\ nextId = [message |-> 1, part |-> 1, session |-> 2]
    /\ busy = [s \in SessionIds |-> NoTask]
    /\ task = [t \in Tasks |-> IdleTask]
    /\ results = <<>>
    /\ ties = 0
    /\ upserts = 0
    /\ limits = [msgs |-> MaxMsgs, calls |-> MaxCalls]
    /\ effects = <<>>
    /\ foreign_keys = FALSE
    /\ txs = <<>>
    /\ permission_manager = load(NoFile, 1, 0)
    /\ storage_state = NoStorage
    /\ agent = NoAgent
    /\ store_db = NoStoreDb
    /\ ids = NoIds
    /\ bash = NoBash
    /\ bus = NoBus
    /\ accounting \in [called : {FALSE}, model : Models, usage : UsageDicts,
                       metadata : Metadatas, tokens : {NoUsage}]

CalculateUsage ==
    /\ ~accounting.called
    /\ Commit([World EXCEPT
           !.accounting = [accounting EXCEPT
               !.called = TRUE,
               !.tokens = calculate_usage(accounting.model, accounting.usage,
                                          accounting.metadata)]])
    /\ UNCHANGED upserts

NextUsage == CalculateUsage

SpecUsage == InitUsage /\ [][NextUsage]_vars

\* C31: the total of a computed usage is the sum of its five components for
\* a model of the Anthropic family or Bedrock; for any other model it is the
\* total the provider reported when it reported one, and otherwise the
\* adjusted input plus output plus cache read plus cache write.
C31_TotalIsSumOfComponents ==
    accounting.called =>
        LET t == accounting.tokens
        IN  IF accounting.model.npm \in AnthropicPackages
            THEN t.total = t.input + t.output + t.reasoning
                           + t.cache.read + t.cache.write
            ELSE IF accounting.usage.totalTokens.kind = "number"
                 THEN t.total = accounting.usage.totalTokens.v
                 ELSE t.total = t.input + t.output + t.cache.read + t.cache.write

\* C32: every token field of a computed usage is a number that is zero or
\* more, whatever the provider reported (a value that is not finite or is
\* below zero counts as zero).
C32_TokensNeverNegative ==
    accounting.called =>
        LET t == accounting.tokens
        IN  /\ t.input >= 0 /\ t.output >= 0 /\ t.reasoning >= 0
            /\ t.cache.read >= 0 /\ t.cache.write >= 0 /\ t.total >= 0

\* ---- the Bus: subscribe, subscribe_all, once, unsubscribe, publish ----------
Behaviours == {"return", "raise", "subscribe", "unsubscribe"}
Targets(does) ==
    IF does = "unsubscribe" THEN 1..Len(bus.callbacks) ELSE {NoTarget}

BusOp(b) ==
    /\ Commit([World EXCEPT !.bus = b])
    /\ UNCHANGED upserts

Subscribe(type, does) ==
    /\ Len(bus.callbacks) < MaxCallbacks
    /\ \E target \in Targets(does) : BusOp(subscribe(bus, type, does, target))

SubscribeAll(does) ==
    /\ Len(bus.callbacks) < MaxCallbacks
    /\ \E target \in Targets(does) : BusOp(subscribe(bus, Wildcard, does, target))

Once(type) ==
    /\ Len(bus.callbacks) < MaxCallbacks
    /\ BusOp(subscribe(bus, type, "done", NoTarget))

Unsubscribe(callback) ==
    BusOp(unsubscribe(bus, callback))

Publish(type) ==
    BusOp(publish(bus, type))

NextBus ==
    \/ \E type \in EventTypes, does \in Behaviours : Subscribe(type, does)
    \/ \E does \in Behaviours : SubscribeAll(does)
    \/ \E type \in EventTypes : Once(type)
    \/ \E callback \in 1..Len(bus.callbacks) : Unsubscribe(callback)
    \/ \E type \in EventTypes : Publish(type)

SpecBus == Init /\ [][NextBus]_vars

Range(seq) == {seq[i] : i \in 1..Len(seq)}
SubscribedAtStart == Range(bus.last.before[bus.last.type])
                     \cup Range(bus.last.before[Wildcard])
TimesCalled(callback) ==
    Cardinality({i \in 1..Len(bus.last.calls) : bus.last.calls[i] = callback})
PublishedUnchanged == bus.last.type # "None" /\ ~bus.last.changed

C34_ChangeNeverDropsEvent ==
    bus.last.type # "None" =>
        \A callback \in SubscribedAtStart :
            IF callback \in Range(bus.last.after[bus.last.type])
                            \cup Range(bus.last.after[Wildcard])
            THEN TimesCalled(callback) = 1
            ELSE TimesCalled(callback) <= 1

\* C35: no exception of a subscriber leaves publish, and a subscriber that
\* was registered when the publish began is left out only when a callback
\* changed the table, never because another subscriber raised.
C35_ExceptionsIsolated ==
    bus.last.type # "None" =>
        /\ ~bus.last.propagated
        /\ ~bus.last.changed => SubscribedAtStart \subseteq Range(bus.last.calls)

C35_CalledAfterRaise ==
    /\ bus.last.type # "None"
    /\ \E i, j \in 1..Len(bus.last.calls) :
           /\ i < j
           /\ bus.last.calls[i] \in bus.last.raised
           /\ bus.callbacks[bus.last.calls[i]].key # Wildcard
           /\ bus.callbacks[bus.last.calls[j]].key = Wildcard

\* ---- BashTool.execute: the wait on the subprocess ----------------------------
MaxWait == 3

BashOp(b) ==
    /\ Commit([World EXCEPT !.bash = b])
    /\ UNCHANGED upserts

\* execute up to `await asyncio.wait_for(process.wait(), timeout=timeout)`
BashExecute(timeout, duration, code) ==
    /\ bash.pc # "waiting"
    /\ BashOp([NoBash EXCEPT !.pc = "waiting", !.timeout = timeout,
                             !.duration = duration, !.code = code])

\* time passes while the tool waits
BashTick ==
    /\ bash.pc = "waiting"
    /\ bash.elapsed < bash.timeout
    /\ bash.elapsed < bash.duration
    /\ BashOp([bash EXCEPT !.elapsed = @ + 1])

\* the abort signal of the tool's context fires
BashAbort ==
    /\ bash.pc = "waiting"
    /\ ~bash.aborted
    /\ BashOp([bash EXCEPT !.aborted = TRUE, !.aborted_at = bash.elapsed])

\* process.wait() returns: exited = True, the streams end, the result is built
BashExited ==
    /\ bash.pc = "waiting"
    /\ bash.elapsed = bash.duration
    /\ bash.elapsed < bash.timeout
    /\ BashOp([bash EXCEPT !.pc = "returned", !.returned_at = bash.elapsed,
                           !.result = BashResult(FALSE, bash.aborted, bash.code)])

\* asyncio.TimeoutError: _kill_process_tree, exited = True, the result is built
BashTimedOut ==
    /\ bash.pc = "waiting"
    /\ bash.elapsed = bash.timeout
    /\ BashOp([bash EXCEPT !.pc = "returned", !.returned_at = bash.elapsed,
                           !.killed = TRUE,
                           !.result = BashResult(TRUE, bash.aborted, Killed)])

NextBash ==
    \/ \E timeout \in 1..MaxWait, duration \in 1..MaxWait, code \in {0, 1} :
           BashExecute(timeout, duration, code)
    \/ BashTick
    \/ BashAbort
    \/ BashExited
    \/ BashTimedOut

SpecBash == Init /\ [][NextBash]_vars

\* C36: a call that was aborted while it waited on its subprocess killed the
\* process tree and returned at the time of the abort with the error "User
\* aborted"; a call that ran into its timeout killed the tree and its result
\* is not that of a user cancellation.
C36_AbortKillsAndReturns ==
    bash.pc = "returned" =>
        /\ bash.aborted =>
               /\ bash.killed
               /\ bash.returned_at = bash.aborted_at
               /\ bash.result.status = "error"
               /\ bash.result.error = UserAborted
        /\ (~bash.aborted /\ bash.returned_at = bash.timeout) =>
               /\ bash.killed
               /\ bash.result.error # UserAborted

\* ---- IDGenerator: generate and reset -----------------------------------------
MaxIssued == 3
UniqueIds == {"0a1b2c3d", "4e5f6a7b"}

IdOp(g) ==
    /\ Commit([World EXCEPT !.ids = g])
    /\ UNCHANGED upserts

Generate(prefix, unique_id) ==
    /\ Len(ids.issued) < MaxIssued
    /\ IdOp(generate(ids, prefix, unique_id))

Reset(prefix) ==
    /\ ids.counter[prefix] > 0
    /\ IdOp(reset(ids, prefix))

NextIds ==
    \/ \E prefix \in Prefixes, unique_id \in UniqueIds : Generate(prefix, unique_id)
    \/ \E prefix \in Prefixes : Reset(prefix)

SpecIds == Init /\ [][NextIds]_vars

\* C37: no two identifiers returned by the generators of a process are
\* equal, whatever sequence of generate and reset calls returned them (the
\* claim rests this on a random component of at least 64 bits; RandomBits
\* is what the code draws).
C37_IdsNeverReused ==
    \A i, j \in 1..Len(ids.issued) : i # j => ids.issued[i] # ids.issued[j]

\* ---- opencode.store Database: use, transaction, effect ----------------------
MaxEffects == 3
MaxDepth == 2

StoreDbOp(d) ==
    /\ Commit([World EXCEPT !.store_db = d])
    /\ UNCHANGED upserts

\* Database.use / Database.transaction with no context: a new session and an
\* empty list of effects
DbUse ==
    /\ store_db.depth = 0
    /\ StoreDbOp([NoStoreDb EXCEPT !.depth = 1])

\* use / transaction inside a context: callback(context['tx'])
DbNestedUse ==
    /\ store_db.depth >= 1
    /\ store_db.depth < MaxDepth
    /\ StoreDbOp([store_db EXCEPT !.depth = @ + 1])

DbNestedReturn ==
    /\ store_db.depth >= 2
    /\ StoreDbOp([store_db EXCEPT !.depth = @ - 1])

\* Database.effect inside a context
DbEffect(raises) ==
    /\ store_db.depth >= 1
    /\ Len(store_db.registered) < MaxEffects
    /\ StoreDbOp([store_db EXCEPT !.registered =
           Append(@, [raises |-> raises, depth |-> store_db.depth])])

\* the outermost callback returns
DbCallbackReturns ==
    /\ store_db.depth = 1
    /\ StoreDbOp(AfterCallback(store_db))

\* the outermost callback raises: rollback, no commit, no effects
DbCallbackRaises ==
    /\ store_db.depth = 1
    /\ StoreDbOp([store_db EXCEPT !.depth = 0, !.rolled_back = TRUE,
                                  !.raised = TRUE, !.returned = TRUE])

NextStoreDb ==
    \/ DbUse
    \/ DbNestedUse
    \/ DbNestedReturn
    \/ \E raises \in BOOLEAN : DbEffect(raises)
    \/ DbCallbackReturns
    \/ DbCallbackRaises

SpecStoreDb == Init /\ [][NextStoreDb]_vars

\* C38: when a call of use or transaction has committed, every effect
\* registered in it, nested ones included, has been executed exactly once
\* and in order, also after an effect that raised, and the call has neither
\* rolled back nor raised to its caller.
C38_EffectsRunOnceAfterCommit ==
    (store_db.returned /\ store_db.committed) =>
        /\ store_db.ran = [i \in 1..Len(store_db.registered) |-> i]
        /\ ~store_db.rolled_back
        /\ ~store_db.raised

\* ---- Agent.run: the loop over model calls and tool calls ---------------------
MaxIterations == 3
MaxToolCalls == 2

AgentOp(a) ==
    /\ Commit([World EXCEPT !.agent = a])
    /\ UNCHANGED upserts

\* run(user_message) up to the first await
AgentRun(max_iterations) ==
    /\ agent.pc \in {"idle", "done"}
    /\ AgentOp(AgentLoop([NoAgent EXCEPT
           !.max_iterations = max_iterations,
           !.messages = <<AgentMessage("user", <<>>, <<>>)>>]))

\* the tool calls of the n-th response, named by response and position
ResponseCalls(n, k) == [i \in 1..k |-> [response |-> n, index |-> i]]

\* provider.complete returns a response with k tool calls; has_content says
\* whether response.content is a non-empty string
AgentModelReturns(k, has_content) ==
    /\ agent.pc = "model"
    /\ LET n == Len(agent.responses) + 1
           calls == ResponseCalls(n, k)
           a == [agent EXCEPT !.responses = Append(@, calls)]
       IN  IF k > 0
           THEN AgentOp([a EXCEPT
                    !.messages = Append(@, AgentMessage("assistant", calls, <<>>)),
                    !.pending = calls, !.tool_results = <<>>, !.pc = "tool"])
           ELSE AgentOp([a EXCEPT
                    !.messages = IF has_content
                                 THEN Append(@, AgentMessage("assistant", <<>>, <<>>))
                                 ELSE @,
                    !.pc = "done", !.outcome = "returned",
                    !.returned = [text |-> IF has_content THEN "content" ELSE "",
                                  response |-> n]])

\* provider.complete raises: nothing in run catches it
AgentModelRaises ==
    /\ agent.pc = "model"
    /\ AgentOp([agent EXCEPT !.pc = "done", !.outcome = "raised",
                             !.raised_by = "provider"])

\* ToolRegistry.execute returns the result of pending[1]; after the last one
\* the results are added as one user message and the loop goes on
AgentToolReturns ==
    /\ agent.pc = "tool"
    /\ LET a == [agent EXCEPT !.tool_results = Append(@, Head(agent.pending)),
                              !.pending = Tail(@)]
       IN  IF a.pending # <<>>
           THEN AgentOp(a)
           ELSE AgentOp(AgentLoop([a EXCEPT
                    !.messages = Append(@, AgentMessage("user", <<>>,
                                                        a.tool_results))]))

\* the tool's execute raises: ToolRegistry.execute and run pass it on
AgentToolRaises ==
    /\ agent.pc = "tool"
    /\ AgentOp([agent EXCEPT !.pc = "done", !.outcome = "raised",
                             !.raised_by = "tool"])

NextAgent ==
    \/ \E max_iterations \in 0..MaxIterations : AgentRun(max_iterations)
    \/ \E k \in 0..MaxToolCalls, has_content \in BOOLEAN :
           AgentModelReturns(k, has_content)
    \/ AgentModelRaises
    \/ AgentToolReturns
    \/ AgentToolRaises

SpecAgent == Init /\ [][NextAgent]_vars

MaxMigrations == 4

StorageOp(st) ==
    /\ Commit([World EXCEPT !.storage_state = st])
    /\ UNCHANGED upserts

RegisterMigration ==
    /\ storage_state.migrations < MaxMigrations
    /\ StorageOp([storage_state EXCEPT !.migrations = @ + 1])

StorageInitialize(fails) ==
    /\ ~storage_state.initialized
    /\ StorageOp([_run_migrations(storage_state, fails) EXCEPT !.initialized = TRUE])

\* the process ends and a new one starts with the same migrations registered;
\* the migration file stays
StorageRestart ==
    /\ storage_state.initialized
    /\ StorageOp([storage_state EXCEPT !.initialized = FALSE])

NextStorage ==
    \/ RegisterMigration
    \/ \E fails \in SUBSET (0..(MaxMigrations - 1)) : StorageInitialize(fails)
    \/ StorageRestart

SpecStorage == Init /\ [][NextStorage]_vars

\* C40: an initialization runs the migrations in index order, and every
\* migration below the persisted version has succeeded (so one that failed
\* is at or above the version and runs again next time).
C40_VersionNeverPassesFailure ==
    /\ \A i, j \in 1..Len(storage_state.ran) : i < j => storage_state.ran[i] < storage_state.ran[j]
    /\ \A index \in 0..(storage_state.version - 1) : index \in storage_state.succeeded
====
